---- MODULE Spec2Model ----
(***************************************************************************)
(* ETL_SAT: streaming ingestion -> text repair -> type coercion ->         *)
(* idempotent load.  A verification model of the pipeline's core:          *)
(*   pkg/extract.py   HybridSatReader                                      *)
(*   pkg/transform.py limpiar_texto_python, transform_sat_batch            *)
(*   pkg/enforcer.py  aplicar_tipos_seguros                                *)
(*   pkg/load.py      create_table_dynamic, check_if_exists,               *)
(*                    upload_to_sql_blindado                               *)
(*   main.py          main                                                 *)
(*                                                                         *)
(* Text is a sequence of Unicode code points; None (Python's None, a       *)
(* Polars null) is the one-element sequence <<-1>>, which no text equals.  *)
(***************************************************************************)
EXTENDS Integers, Sequences, FiniteSets, TLC

VARIABLES
    \* ---- limpiar_texto_python applied to one string (pkg/transform.py)
    texto,        \* the argument: a text or None
    resultado,    \* the value returned
    rpc,          \* "off" | "ready" | "done" | "again"
    \* ---- the source file and its HybridSatReader (pkg/extract.py)
    archivo,      \* the data lines after the header, each line given by its UUID field
    batch_size,   \* self.batch_size
    f_pos,        \* data lines self.f has yielded so far
    f_closed,     \* self.f.closed
    closeCalls,   \* calls of self.f.close() so far
    returns,      \* what each next_batches call so far returned or raised, in call order
    \* ---- the target store (SQL Server behind pyodbc)
    tabla_existe, \* the target table exists (committed)
    tabla,        \* its committed rows, each given by its UUID, in insertion order
    tx_creada,    \* the open transaction has created the table
    tx_filas,     \* rows the open transaction has inserted
    \* ---- one call of upload_to_sql_blindado (pkg/load.py)
    upc,          \* "idle" | "connect" | "ddl" | "ddl_commit" | "probe" | "insert"
                  \*   | "commit" | "finally" | "fin"
    df,           \* the batch passed in, each row given by its UUID
    conn,         \* "none" | "open" | "closed"
    ins_i,        \* rows of df that executemany has inserted
    pendiente,    \* the return value or exception waiting for the finally clause
    upload_ret,   \* how the call ended: "True" | "False" | an exception name
    llamada,      \* what the call has done: the committed rows when it began and
                  \*   whether the table existed then, the statements it issued,
                  \*   whether a round trip failed or was interrupted under it
                  \*   (fallo), whether one raised a database error (error_db)
    lotes_confirmados,  \* the batches whose commit succeeded, in order
    \* ---- main (main.py)
    mpc,          \* "inicio" | "extract" | "upload" | "eof" | "failed" | "interrupted"
    corrida,      \* runs of main started so far
    metricas,     \* rows passed to report.update_metrics in this run
    historial,    \* for each finished run: how it ended and the committed rows then
    \* ---- one batch through phases B and C of main's loop
    df_batch,     \* the batch as read: [columns, rows], every column Utf8
    df_processed, \* transform_sat_batch(df_batch)
    reparadas,    \* the columns (by position) mapped through limpiar_texto_python
    esquema_final,\* the dtype of each column of aplicar_tipos_seguros(df_processed, ...)
    df_final,     \* what aplicar_tipos_seguros(df_processed, ...) returned or raised
    column_defs,  \* the storage type create_table_dynamic gives each column of df_final
    bpc,          \* "off" | "raw" | "transformed" | "typed" | "failed" | "ddl"
    \* ---- one invocation of main from its first line (main.py)
    argv1,        \* sys.argv[1], or None when the program has no argument
    archivo_existe, \* the source file of the annex is on disk
    meta,         \* what obtener_meta returned
    eventos,      \* the file, report and database calls main has made, in order
    fallo_en,     \* the call whose exception `except Exception` caught, or "none"
    \* ---- procesar_todo_el_periodo (ejecutar_todo.py)
    opc,          \* "off" | "validar" | "main" | "limpiar" | "reporte"
    i_anexo,      \* position in ANEXOS of the annex of the current turn
    resumen,      \* resumen: << anexo, status >> entries, in the order appended
    limpiezas,    \* positions of the annexes after which the cleanup has run
    fines         \* how the main process of each annex run so far ended

repairVars == <<texto, resultado, rpc>>
readerVars == <<archivo, batch_size, f_pos, f_closed, closeCalls, returns>>
dbVars     == <<tabla_existe, tabla, tx_creada, tx_filas>>
uploadVars == <<upc, df, conn, ins_i, pendiente, upload_ret, llamada, lotes_confirmados>>
mainVars   == <<mpc, corrida, metricas, historial>>
loadVars   == <<dbVars, uploadVars, mainVars>>
batchVars  == <<df_batch, df_processed, reparadas, esquema_final, df_final, column_defs, bpc>>
progVars   == <<argv1, archivo_existe, meta, eventos, fallo_en>>
orqVars    == <<opc, i_anexo, resumen, limpiezas, fines>>
vars == <<repairVars, readerVars, loadVars, batchVars, progVars, orqVars>>

None == <<-1>>

(***************************************************************************)
(* The parts of the state a specification does not exercise stay as below. *)
(***************************************************************************)
RepairOff ==
    /\ texto = None
    /\ resultado = None
    /\ rpc = "off"

ReaderOff ==
    /\ archivo = <<>>
    /\ batch_size = 0
    /\ f_pos = 0
    /\ f_closed = TRUE
    /\ closeCalls = 0
    /\ returns = <<>>

LlamadaNueva(filas) ==
    [tabla |-> filas, existia |-> tabla_existe, ddl |-> 0, probes |-> 0, inserts |-> 0,
     closes |-> 0, fallo |-> FALSE, error_db |-> FALSE]

LoadOff ==
    /\ tabla_existe = FALSE
    /\ tabla = <<>>
    /\ tx_creada = FALSE
    /\ tx_filas = <<>>
    /\ upc = "idle"
    /\ df = <<>>
    /\ conn = "none"
    /\ ins_i = 0
    /\ pendiente = "none"
    /\ upload_ret = "none"
    /\ llamada = LlamadaNueva(<<>>)
    /\ lotes_confirmados = <<>>
    /\ mpc = "off"
    /\ corrida = 0
    /\ metricas = 0
    /\ historial = <<>>

DfVacio == [columns |-> <<>>, rows |-> <<>>]

SinMeta == [database |-> <<>>, table_name |-> <<>>, file_name |-> <<>>]

ProgOff ==
    /\ argv1 = None
    /\ archivo_existe = FALSE
    /\ meta = SinMeta
    /\ eventos = <<>>
    /\ fallo_en = "none"

OrqOff ==
    /\ opc = "off"
    /\ i_anexo = 0
    /\ resumen = <<>>
    /\ limpiezas = <<>>
    /\ fines = <<>>

SinResultado == [kind |-> "none", columns |-> <<>>, rows |-> <<>>, schema |-> <<>>]

BatchOff ==
    /\ df_batch = DfVacio
    /\ df_processed = DfVacio
    /\ reparadas = {}
    /\ esquema_final = <<>>
    /\ df_final = SinResultado
    /\ column_defs = <<>>
    /\ bpc = "off"

(***************************************************************************)
(* Python str primitives                                                   *)
(***************************************************************************)

\* `p in s` restricted to a match at position 1 (str.startswith)
StartsWith(s, p) ==
    /\ Len(p) <= Len(s)
    /\ SubSeq(s, 1, Len(p)) = p

\* `p in s` for two str: p occurs in s as a contiguous substring
Contains(s, p) ==
    \E i \in 1..(Len(s) - Len(p) + 1) : SubSeq(s, i, i + Len(p) - 1) = p

RECURSIVE Intercalate(_, _)
\* s.replace("", r): r before every character and after the last one
Intercalate(s, r) ==
    IF Len(s) = 0 THEN r ELSE r \o <<Head(s)>> \o Intercalate(Tail(s), r)

RECURSIVE StrReplace(_, _, _)
\* s.replace(p, r): every non-overlapping occurrence of p, leftmost first
StrReplace(s, p, r) ==
    IF Len(p) = 0 THEN Intercalate(s, r)
    ELSE IF Len(s) < Len(p) THEN s
    ELSE IF SubSeq(s, 1, Len(p)) = p
         THEN r \o StrReplace(SubSeq(s, Len(p) + 1, Len(s)), p, r)
         ELSE <<Head(s)>> \o StrReplace(Tail(s), p, r)

(***************************************************************************)
(* pkg/cleaning_rules.py: REEMPLAZOS_MOJIBAKE, in the dict's iteration     *)
(* order (insertion order; a key written twice keeps its first position    *)
(* and its last value).  << corrupt pattern, replacement >>                *)
(***************************************************************************)
REEMPLAZOS_MOJIBAKE == <<
    << <<65, 175, 32, 191, 32, 191, 65, 71, 65>>, <<209, 65, 71, 65>> >>,  \* 1: 'A\xaf \xbf \xbfAGA' -> '\xd1AGA' (line 19)
    << <<65, 175, 32, 191, 32, 191, 73, 71, 65>>, <<209, 73, 71, 65>> >>,  \* 2: 'A\xaf \xbf \xbfIGA' -> '\xd1IGA' (line 20)
    << <<65, 175, 32, 191, 32, 191, 85, 69, 76, 79, 83>>, <<209, 85, 69, 76, 79, 83>> >>,  \* 3: 'A\xaf \xbf \xbfUELOS' -> '\xd1UELOS' (line 21)
    << <<65, 175, 32, 191, 32, 191, 65>>, <<209, 65>> >>,  \* 4: 'A\xaf \xbf \xbfA' -> '\xd1A' (line 22)
    << <<65, 175, 32, 191, 32, 191, 79>>, <<209, 79>> >>,  \* 5: 'A\xaf \xbf \xbfO' -> '\xd1O' (line 23)
    << <<65, 175, 32, 191, 32, 191, 69, 90>>, <<209, 69, 90>> >>,  \* 6: 'A\xaf \xbf \xbfEZ' -> '\xd1EZ' (line 24)
    << <<65, 175, 32, 191, 32, 191, 79, 83>>, <<209, 79, 83>> >>,  \* 7: 'A\xaf \xbf \xbfOS' -> '\xd1OS' (line 25)
    << <<65, 175, 32, 191, 32, 191>>, <<209>> >>,  \* 8: 'A\xaf \xbf \xbf' -> '\xd1' (line 26)
    << <<195, 402, 194, 402, 195, 162, 194, 8364, 194, 732>>, <<209>> >>,  \* 9: '\xc3\u0192\xc2\u0192\xc3\xa2\xc2\u20ac\xc2\u02dc' -> '\xd1' (line 29)
    << <<195, 402, 194, 402, 195, 162, 194, 8364, 194>>, <<209>> >>,  \* 10: '\xc3\u0192\xc2\u0192\xc3\xa2\xc2\u20ac\xc2' -> '\xd1' (line 30)
    << <<195, 175, 194, 191, 194, 189>>, <<209>> >>,  \* 11: '\xc3\xaf\xc2\xbf\xc2\xbd' -> '\xd1' (line 31)
    << <<65, 175, 32, 191, 32, 189>>, <<209>> >>,  \* 12: 'A\xaf \xbf \xbd' -> '\xd1' (line 32)
    << <<68, 194, 165>>, <<68>> >>,  \* 13: 'D\xc2\xa5' -> 'D' (line 33)
    << <<68, 32, 165>>, <<68>> >>,  \* 14: 'D \xa5' -> 'D' (line 34)
    << <<226, 8364, 166>>, <<>> >>,  \* 15: '\xe2\u20ac\xa6' -> '' (line 35)
    << <<32, 166>>, <<>> >>,  \* 16: ' \xa6' -> '' (line 36)
    << <<194, 183>>, <<>> >>,  \* 17: '\xc2\xb7' -> '' (line 37)
    << <<65, 82, 209, 82>>, <<79>> >>,  \* 18: 'AR\xd1R' -> 'O' (line 40)
    << <<67, 73, 65, 32, 8220, 78>>, <<67, 73, 79, 78>> >>,  \* 19: 'CIA \u201cN' -> 'CION' (line 41)
    << <<67, 73, 65, 8220, 78>>, <<67, 73, 79, 78>> >>,  \* 20: 'CIA\u201cN' -> 'CION' (line 42)
    << <<8220, 78>>, <<79, 78>> >>,  \* 21: '\u201cN' -> 'ON' (line 43)
    << <<8220>>, <<79>> >>,  \* 22: '\u201c' -> 'O' (line 44)
    << <<65, 32, 8220>>, <<79>> >>,  \* 23: 'A \u201c' -> 'O' (line 45)
    << <<195, 402, 194, 177>>, <<209>> >>,  \* 24: '\xc3\u0192\xc2\xb1' -> '\xd1' (line 48)
    << <<195, 402, 194, 8216>>, <<209>> >>,  \* 25: '\xc3\u0192\xc2\u2018' -> '\xd1' (line 49)
    << <<195, 402, 32>>, <<209>> >>,  \* 26: '\xc3\u0192 ' -> '\xd1' (line 50)
    << <<195, 402, 63>>, <<209>> >>,  \* 27: '\xc3\u0192?' -> '\xd1' (line 51)
    << <<195, 402>>, <<209>> >>,  \* 28: '\xc3\u0192' -> '\xd1' (line 52)
    << <<195, 8240>>, <<69>> >>,  \* 29: '\xc3\u2030' -> 'E' (line 53)
    << <<195, 8220>>, <<79>> >>,  \* 30: '\xc3\u201c' -> 'O' (line 54)
    << <<195, 8221>>, <<79>> >>,  \* 31: '\xc3\u201d' -> 'O' (line 55)
    << <<195, 8230>>, <<65>> >>,  \* 32: '\xc3\u2026' -> 'A' (line 56)
    << <<195, 8216>>, <<209>> >>,  \* 33: '\xc3\u2018' -> '\xd1' (line 57)
    << <<195, 177>>, <<209>> >>,  \* 34: '\xc3\xb1' -> '\xd1' (line 58)
    << <<195, 161>>, <<65>> >>,  \* 35: '\xc3\xa1' -> 'A' (line 59)
    << <<195, 169>>, <<69>> >>,  \* 36: '\xc3\xa9' -> 'E' (line 60)
    << <<195, 173>>, <<73>> >>,  \* 37: '\xc3\xad' -> 'I' (line 61, value from line 76)
    << <<195, 179>>, <<79>> >>,  \* 38: '\xc3\xb3' -> 'O' (line 62)
    << <<195, 186>>, <<85>> >>,  \* 39: '\xc3\xba' -> 'U' (line 63)
    << <<195, 353>>, <<85>> >>,  \* 40: '\xc3\u0161' -> 'U' (line 64)
    << <<195, 8225>>, <<32>> >>,  \* 41: '\xc3\u2021' -> ' ' (line 65)
    << <<195, 338>>, <<85>> >>,  \* 42: '\xc3\u0152' -> 'U' (line 66)
    << <<195, 46>>, <<209>> >>,  \* 43: '\xc3.' -> '\xd1' (line 67)
    << <<65, 8240>>, <<69>> >>,  \* 44: 'A\u2030' -> 'E' (line 68)
    << <<65, 8220>>, <<79>> >>,  \* 45: 'A\u201c' -> 'O' (line 69)
    << <<65, 32, 338>>, <<79>> >>,  \* 46: 'A \u0152' -> 'O' (line 70)
    << <<65, 168>>, <<69>> >>,  \* 47: 'A\xa8' -> 'E' (line 71)
    << <<65, 169>>, <<69>> >>,  \* 48: 'A\xa9' -> 'E' (line 72)
    << <<65, 32, 169>>, <<69>> >>,  \* 49: 'A \xa9' -> 'E' (line 73)
    << <<169>>, <<69>> >>,  \* 50: '\xa9' -> 'E' (line 74)
    << <<195, 141>>, <<73>> >>,  \* 51: '\xc3\x8d' -> 'I' (line 75)
    << <<195, 129>>, <<65>> >>,  \* 52: '\xc3\x81' -> 'A' (line 77)
    << <<65, 71, 85, 73, 65, 401, 732>>, <<209>> >>,  \* 53: 'AGUIA\u0191\u02dc' -> '\xd1' (line 78)
    << <<77, 65, 82, 195, 65>>, <<77, 65, 82, 73, 65>> >>,  \* 54: 'MAR\xc3A' -> 'MARIA' (line 79)
    << <<65, 76, 67, 65, 76, 68, 195, 65>>, <<65, 76, 67, 65, 76, 68, 73, 65>> >>,  \* 55: 'ALCALD\xc3A' -> 'ALCALDIA' (line 80)
    << <<71, 65, 82, 67, 195, 65>>, <<71, 65, 82, 67, 73, 65>> >>,  \* 56: 'GARC\xc3A' -> 'GARCIA' (line 81)
    << <<165>>, <<209>> >>,  \* 57: '\xa5' -> '\xd1' (line 84)
    << <<195, 165>>, <<209>> >>,  \* 58: '\xc3\xa5' -> '\xd1' (line 85)
    << <<194, 165>>, <<209>> >>,  \* 59: '\xc2\xa5' -> '\xd1' (line 86)
    << <<195, 65>>, <<73, 65>> >>,  \* 60: '\xc3A' -> 'IA' (line 87)
    << <<401, 732>>, <<209>> >>,  \* 61: '\u0191\u02dc' -> '\xd1' (line 88)
    << <<732>>, <<>> >>,  \* 62: '\u02dc' -> '' (line 89)
    << <<401>>, <<>> >>,  \* 63: '\u0191' -> '' (line 90)
    << <<168>>, <<>> >>,  \* 64: '\xa8' -> '' (line 91)
    << <<8217>>, <<>> >>,  \* 65: '\u2019' -> '' (line 92)
    << <<8216>>, <<>> >>,  \* 66: '\u2018' -> '' (line 93)
    << <<180>>, <<>> >>,  \* 67: '\xb4' -> '' (line 94)
    << <<178>>, <<79>> >>,  \* 68: '\xb2' -> 'O' (line 95)
    << <<185>>, <<85>> >>,  \* 69: '\xb9' -> 'U' (line 96)
    << <<8482>>, <<>> >>,  \* 70: '\u2122' -> '' (line 97)
    << <<172>>, <<73>> >>,  \* 71: '\xac' -> 'I' (line 98)
    << <<338>>, <<79>> >>,  \* 72: '\u0152' -> 'O' (line 99)
    << <<177>>, <<209>> >>,  \* 73: '\xb1' -> '\xd1' (line 100)
    << <<65, 32, 177>>, <<209>> >>,  \* 74: 'A \xb1' -> '\xd1' (line 101)
    << <<65, 32, 79>>, <<209>> >>,  \* 75: 'A O' -> '\xd1' (line 102)
    << <<65, 32, 8240>>, <<69>> >>,  \* 76: 'A \u2030' -> 'E' (line 103)
    << <<207, 191, 189>>, <<>> >>,  \* 77: '\xcf\xbf\xbd' -> '' (line 104)
    << <<176>>, <<>> >>,  \* 78: '\xb0' -> '' (line 105)
    << <<186>>, <<>> >>,  \* 79: '\xba' -> '' (line 106)
    << <<167>>, <<>> >>,  \* 80: '\xa7' -> '' (line 107)
    << <<188>>, <<85>> >>,  \* 81: '\xbc' -> 'U' (line 108)
    << <<195, 32>>, <<65>> >>,  \* 82: '\xc3 ' -> 'A' (line 111)
    << <<195>>, <<65>> >>,  \* 83: '\xc3' -> 'A' (line 112)
    << <<71, 65, 82, 67, 63, 65>>, <<71, 65, 82, 67, 73, 65>> >>,  \* 84: 'GARC?A' -> 'GARCIA' (line 113)
    << <<71, 65, 82, 67, 32, 65>>, <<71, 65, 82, 67, 73, 65>> >>,  \* 85: 'GARC A' -> 'GARCIA' (line 114)
    << <<71, 63, 77, 69, 90>>, <<71, 79, 77, 69, 90>> >>,  \* 86: 'G?MEZ' -> 'GOMEZ' (line 115)
    << <<71, 32, 77, 69, 90>>, <<71, 79, 77, 69, 90>> >>,  \* 87: 'G MEZ' -> 'GOMEZ' (line 116)
    << <<80, 63, 82, 69, 90>>, <<80, 69, 82, 69, 90>> >>,  \* 88: 'P?REZ' -> 'PEREZ' (line 117)
    << <<32, 80, 32, 82, 69, 90>>, <<32, 80, 69, 82, 69, 90>> >>,  \* 89: ' P REZ' -> ' PEREZ' (line 118)
    << <<79, 82, 68, 79, 63, 69, 90>>, <<79, 82, 68, 79, 209, 69, 90>> >>,  \* 90: 'ORDO?EZ' -> 'ORDO\xd1EZ' (line 119)
    << <<79, 82, 68, 79, 32, 69, 90>>, <<79, 82, 68, 79, 209, 69, 90>> >>,  \* 91: 'ORDO EZ' -> 'ORDO\xd1EZ' (line 120)
    << <<76, 85, 67, 63, 65>>, <<76, 85, 67, 73, 65>> >>,  \* 92: 'LUC?A' -> 'LUCIA' (line 121)
    << <<77, 65, 82, 63, 65>>, <<77, 65, 82, 73, 65>> >>,  \* 93: 'MAR?A' -> 'MARIA' (line 122)
    << <<68, 63, 65, 90>>, <<68, 73, 65, 90>> >>,  \* 94: 'D?AZ' -> 'DIAZ' (line 123)
    << <<77, 85, 63, 79, 90>>, <<77, 85, 209, 79, 90>> >>,  \* 95: 'MU?OZ' -> 'MU\xd1OZ' (line 124)
    << <<77, 85, 32, 69, 90>>, <<77, 85, 209, 79, 90>> >>,  \* 96: 'MU EZ' -> 'MU\xd1OZ' (line 125)
    << <<66, 65, 63, 79, 83>>, <<66, 65, 209, 79, 83>> >>,  \* 97: 'BA?OS' -> 'BA\xd1OS' (line 126)
    << <<205>>, <<73>> >>,  \* 98: '\xcd' -> 'I' (line 127)
    << <<38, 65, 77, 80, 59>>, <<38>> >>,  \* 99: '&AMP;' -> '&' (line 130)
    << <<38, 81, 85, 79, 84, 59>>, <<>> >>,  \* 100: '&QUOT;' -> '' (line 131)
    << <<194, 174>>, <<>> >>,  \* 101: '\xc2\xae' -> '' (line 132)
    << <<194>>, <<32>> >>,  \* 102: '\xc2' -> ' ' (line 133)
    << <<8364>>, <<>> >>,  \* 103: '\u20ac' -> '' (line 134)
    << <<194, 186>>, <<>> >>,  \* 104: '\xc2\xba' -> '' (line 135)
    << <<161>>, <<73>> >>,  \* 105: '\xa1' -> 'I' (line 136)
    << <<129>>, <<32>> >>,  \* 106: '\x81' -> ' ' (line 137)
    << <<8249>>, <<>> >>,  \* 107: '\u2039' -> '' (line 138)
    << <<8250>>, <<>> >>,  \* 108: '\u203a' -> '' (line 139)
    << <<66, 65, 79, 83>>, <<66, 65, 209, 79, 83>> >>,  \* 109: 'BAOS' -> 'BA\xd1OS' (line 145)
    << <<83, 65, 76, 68, 65, 65>>, <<83, 65, 76, 68, 65, 209, 65>> >>,  \* 110: 'SALDAA' -> 'SALDA\xd1A' (line 146)
    << <<67, 79, 77, 80, 65, 73, 65>>, <<67, 79, 77, 80, 65, 209, 73, 65>> >>,  \* 111: 'COMPAIA' -> 'COMPA\xd1IA' (line 147)
    << <<78, 73, 79>>, <<78, 73, 209, 79>> >>,  \* 112: 'NIO' -> 'NI\xd1O' (line 148)
    << <<68, 73, 83, 69, 79>>, <<68, 73, 83, 69, 209, 79>> >>,  \* 113: 'DISEO' -> 'DISE\xd1O' (line 149)
    << <<65, 79>>, <<65, 209, 79>> >>,  \* 114: 'AO' -> 'A\xd1O' (line 150)
    << <<208>>, <<209>> >>,  \* 115: '\xd0' -> '\xd1' (line 153)
    << <<240>>, <<241>> >>,  \* 116: '\xf0' -> '\xf1' (line 154)
    << <<65533>>, <<209>> >>  \* 117: '\ufffd' -> '\xd1' (line 155)
>>

NumReglas == Len(REEMPLAZOS_MOJIBAKE)

\* one iteration of the loop of limpiar_texto_python: rule k on texto_limpio = t
AplicarRegla(t, k) ==
    LET sucio  == REEMPLAZOS_MOJIBAKE[k][1]
        limpio == REEMPLAZOS_MOJIBAKE[k][2]
    IN  IF Contains(t, sucio) THEN StrReplace(t, sucio, limpio) ELSE t

RECURSIVE LimpiarRango(_, _, _)
\* the iterations for rules lo..hi, in order (evaluated by halves, which keeps
\* the evaluation shallow; the order of application is that of the loop)
LimpiarRango(t, lo, hi) ==
    IF lo > hi THEN t
    ELSE IF lo = hi THEN AplicarRegla(t, lo)
    ELSE LET mid == (lo + hi) \div 2
             izq == LimpiarRango(t, lo, mid)
         IN  IF Len(izq) >= 0 THEN LimpiarRango(izq, mid + 1, hi) ELSE izq

limpiar_texto_python(t) ==
    IF t = None THEN None ELSE LimpiarRango(t, 1, NumReglas)

(***************************************************************************)
(* pkg/extract.py: HybridSatReader                                         *)
(***************************************************************************)

\* longest file (data lines), largest batch size, distinct UUID values and
\* calls of next_batches on one reader that the model enumerates
MaxLines == 4
MaxBatch == 3
NumUuids == 3
MaxCalls == 6

Uuids == 1..NumUuids

\* The files enumerated: every sequence of at most MaxLines UUID values in which
\* the values appear for the first time in increasing order (UUID values are
\* opaque, so every other file is one of these with the values renamed).
PrimeraVez(a) ==
    \A i \in 1..Len(a) :
        a[i] = 1 \/ \E j \in 1..(i - 1) : a[j] >= a[i] - 1

Archivos ==
    { a \in UNION { [1..n -> Uuids] : n \in 0..MaxLines } : PrimeraVez(a) }

\* HybridSatReader.__init__: the file is open and its header line consumed
ReaderNew(a, n) ==
    /\ archivo = a
    /\ batch_size = n
    /\ f_pos = 0
    /\ f_closed = FALSE
    /\ closeCalls = 0
    /\ returns = <<>>

\* a reader that drops a batch shorter than batch_size
IsliceFullOnly(a, pos, n) ==
    IF pos + n <= Len(a) THEN SubSeq(a, pos + 1, pos + n) ELSE <<>>

\* a reader that steps back one line before each slice after the first
IsliceSolapado(a, pos, n) ==
    SubSeq(a, IF pos > 0 THEN pos ELSE 1, IF pos + n <= Len(a) THEN pos + n ELSE Len(a))

\* list(itertools.islice(self.f, self.batch_size)) on an open file at line pos
Islice(a, pos, n) ==
    SubSeq(a, pos + 1, IF pos + n <= Len(a) THEN pos + n ELSE Len(a))

\* a reader that closes its handle as soon as a batch comes back short
DebeCerrarCorto(lines, n) == Len(lines) < n

\* `if not lines`: the handle is closed when the slice is empty
DebeCerrar(lines, n) == Len(lines) = 0

\* HybridSatReader.next_batches.  On a closed file the iteration raises
\* ValueError (I/O operation on closed file) before anything else happens.
NextBatchesResult ==
    IF f_closed THEN [kind |-> "ValueError", lines |-> <<>>]
    ELSE LET lines == Islice(archivo, f_pos, batch_size)
         IN  IF Len(lines) = 0 THEN [kind |-> "None", lines |-> <<>>]
             ELSE [kind |-> "batch", lines |-> lines]

NextBatchesEffect ==
    IF f_closed THEN UNCHANGED <<f_pos, f_closed, closeCalls>>
    ELSE LET lines == Islice(archivo, f_pos, batch_size)
         IN  /\ f_pos' = f_pos + Len(lines)
             /\ f_closed' = DebeCerrar(lines, batch_size)
             /\ closeCalls' = IF DebeCerrar(lines, batch_size)
                              THEN closeCalls + 1 ELSE closeCalls

NextBatches ==
    /\ batch_size > 0
    /\ Len(returns) < MaxCalls
    /\ NextBatchesEffect
    /\ returns' = Append(returns, NextBatchesResult)
    /\ UNCHANGED <<archivo, batch_size, repairVars, orqVars, progVars, loadVars, batchVars>>

(***************************************************************************)
(* Specification SpecReader: any sequence of next_batches calls on one     *)
(* reader over one file                                                    *)
(***************************************************************************)
ReaderInit ==
    /\ \E a \in Archivos, n \in 1..MaxBatch : ReaderNew(a, n)
    /\ ProgOff
    /\ RepairOff
    /\ LoadOff
    /\ BatchOff
    /\ OrqOff

ReaderNext == NextBatches

SpecReader == ReaderInit /\ [][ReaderNext]_vars

\* number of next_batches calls that return a batch: ceil(lines / batch_size)
NumLotes == (Len(archivo) + batch_size - 1) \div batch_size

\* C5: when the data lines are not a multiple of the batch size, the last batch
\* is returned short but non-empty, the call right after it returns None, and no
\* later call returns a batch or a second None.
C5_FinalPartialBatch ==
    (batch_size > 0 /\ Len(archivo) % batch_size # 0) =>
        /\ Len(returns) >= NumLotes =>
               /\ returns[NumLotes].kind = "batch"
               /\ Len(returns[NumLotes].lines) = Len(archivo) % batch_size
               /\ returns[NumLotes].lines =
                      SubSeq(archivo, Len(archivo) - (Len(archivo) % batch_size) + 1,
                             Len(archivo))
        /\ Len(returns) >= NumLotes + 1 => returns[NumLotes + 1].kind = "None"
        /\ \A i \in 1..Len(returns) :
               i > NumLotes + 1 => returns[i].kind \notin {"batch", "None"}

\* C5 witness: a short final batch, the sentinel and a later call have happened.
C5_Witness ==
    /\ batch_size > 1
    /\ Len(archivo) % batch_size # 0
    /\ Len(archivo) > batch_size
    /\ Len(returns) >= NumLotes + 2

\* C6: the handle is open while lines remain, closed by the first call that
\* finds no further lines, and close() is never called a second time.
C6_ClosedExactlyOnce ==
    batch_size > 0 =>
        /\ closeCalls <= 1
        /\ f_closed <=> closeCalls = 1
        /\ f_closed <=> \E i \in 1..Len(returns) : returns[i].kind = "None"
        /\ f_pos < Len(archivo) => ~f_closed
        /\ \A i \in 1..Len(returns) :
               returns[i].kind = "None" => i = NumLotes + 1

\* C6 witness: the handle was closed and further calls were made after that.
C6_Witness ==
    /\ f_closed
    /\ closeCalls = 1
    /\ Len(archivo) > 0
    /\ Len(returns) >= NumLotes + 3

(***************************************************************************)
(* pkg/load.py: the target store and upload_to_sql_blindado                *)
(***************************************************************************)

\* runs of main over the same file that the model follows
MaxRuns == 2

\* the elements of a sequence
Elems(q) == { q[i] : i \in 1..Len(q) }

RECURSIVE Aplanar(_)
\* the rows of a sequence of batches, in order
Aplanar(lotes) ==
    IF Len(lotes) = 0 THEN <<>> ELSE Head(lotes) \o Aplanar(Tail(lotes))

\* a connection that commits every statement as it is executed
AutocommitOn == TRUE

\* get_sql_connection: pyodbc.connect(conn_str) opens the connection with
\* autocommit off, so statements stay in a transaction until conn.commit()
Autocommit == FALSE

\* a UUID column without its key
SinLlave(filas, u) == FALSE

\* [UUID] VARCHAR(36) NOT NULL PRIMARY KEY: inserting u breaks the key when a
\* row visible to the transaction already carries u
ViolaLlave(filas, u) == u \in Elems(filas)

\* a probe that looks for the UUID of the batch's last record
ProbeUltimo(existe, filas, lote, falla) ==
    IF falla THEN FALSE ELSE existe /\ lote[Len(lote)] \in Elems(filas)

\* primer_uuid = df["UUID"][0]; check_if_exists(cursor, table_name, primer_uuid):
\* SELECT TOP 1 1 ... WHERE UUID = ?, and any exception of the query gives False
Probe(existe, filas, lote, falla) ==
    IF falla THEN FALSE ELSE existe /\ lote[1] \in Elems(filas)

\* a test that finds no batch empty
NuncaVacio(lote) == FALSE

\* df.is_empty()
is_empty(lote) == Len(lote) = 0

\* the call begins: `if df.is_empty(): return False`, else get_sql_connection
UploadLlamar(lote) ==
    /\ df' = lote
    /\ ins_i' = 0
    /\ pendiente' = "none"
    /\ llamada' = LlamadaNueva(tabla)
    /\ conn' = "none"
    /\ IF is_empty(lote)
       THEN upc' = "fin" /\ upload_ret' = "False"
       ELSE upc' = "connect" /\ upload_ret' = "none"

\* conn = get_sql_connection(db_name)
UpConnect ==
    /\ upc = "connect"
    /\ conn' = "open"
    /\ upc' = "ddl"
    /\ UNCHANGED <<df, ins_i, pendiente, upload_ret, llamada, lotes_confirmados>>
    /\ UNCHANGED <<dbVars, mainVars, readerVars, repairVars, orqVars, progVars, batchVars>>

\* pyodbc.connect raises: the exception leaves upload_to_sql_blindado before
\* the try block is entered
UpConnectFalla ==
    /\ upc = "connect"
    /\ upc' = "fin"
    /\ upload_ret' = "ConnectivityError"
    /\ llamada' = [llamada EXCEPT !.fallo = TRUE, !.error_db = TRUE]
    /\ UNCHANGED <<df, conn, ins_i, pendiente, lotes_confirmados>>
    /\ UNCHANGED <<dbVars, mainVars, readerVars, repairVars, orqVars, progVars, batchVars>>

\* a statement that creates the table whether it is there or not
CreaSiempre(existe) == TRUE

\* IF NOT EXISTS (SELECT * FROM sys.tables WHERE name = '{table_name}')
CreaTabla(existe) == ~existe

\* create_table_dynamic: IF NOT EXISTS (...) BEGIN CREATE TABLE ... END.
\* CREATE TABLE on a table that exists is an error of the statement.
UpDDL ==
    /\ upc = "ddl"
    /\ llamada' = [llamada EXCEPT !.ddl = @ + 1]
    /\ IF ~CreaTabla(tabla_existe \/ tx_creada)
       THEN /\ upc' = "ddl_commit"
            /\ UNCHANGED <<tabla_existe, tabla, tx_creada, pendiente>>
       ELSE IF tabla_existe \/ tx_creada
            THEN /\ pendiente' = "ProgrammingError"
                 /\ upc' = "finally"
                 /\ UNCHANGED <<tabla_existe, tabla, tx_creada>>
       ELSE /\ upc' = "ddl_commit"
            /\ UNCHANGED pendiente
            /\ IF Autocommit
               THEN tabla_existe' = TRUE /\ UNCHANGED <<tabla, tx_creada>>
               ELSE tx_creada' = TRUE /\ UNCHANGED <<tabla_existe, tabla>>
    /\ UNCHANGED <<tx_filas, df, conn, ins_i, upload_ret, lotes_confirmados>>
    /\ UNCHANGED <<mainVars, readerVars, repairVars, orqVars, progVars, batchVars>>

\* conn.commit() after the DDL
UpDDLCommit ==
    /\ upc = "ddl_commit"
    /\ tabla_existe' = (tabla_existe \/ tx_creada)
    /\ tx_creada' = FALSE
    /\ upc' = "probe"
    /\ UNCHANGED <<tabla, tx_filas, df, conn, ins_i, pendiente, upload_ret, llamada,
                   lotes_confirmados>>
    /\ UNCHANGED <<mainVars, readerVars, repairVars, orqVars, progVars, batchVars>>

\* `if check_if_exists(...): return False`; falla: the query raises inside
\* check_if_exists, whose `except Exception` turns that into False
UpProbe ==
    /\ upc = "probe"
    /\ \E falla \in BOOLEAN :
        /\ llamada' = [llamada EXCEPT !.probes = @ + 1, !.fallo = @ \/ falla,
                                      !.error_db = @ \/ falla]
        /\ IF Probe(tabla_existe, tabla, df, falla)
           THEN pendiente' = "False" /\ upc' = "finally"
           ELSE pendiente' = pendiente /\ upc' = "insert"
    /\ UNCHANGED <<df, conn, ins_i, upload_ret, lotes_confirmados>>
    /\ UNCHANGED <<dbVars, mainVars, readerVars, repairVars, orqVars, progVars, batchVars>>

\* cursor.executemany(insert_sql, rows): the server takes the rows one after
\* another inside the transaction; a row that breaks the key fails the statement
UpInsert ==
    /\ upc = "insert"
    /\ ins_i < Len(df)
    /\ llamada' = [llamada EXCEPT !.inserts = @ + 1]
    /\ LET u == df[ins_i + 1]
       IN  IF ViolaLlave(tabla \o tx_filas, u)
           THEN /\ pendiente' = "IntegrityError"
                /\ upc' = "finally"
                /\ UNCHANGED <<tabla, tx_filas, ins_i>>
           ELSE /\ IF Autocommit
                   THEN tabla' = Append(tabla, u) /\ UNCHANGED tx_filas
                   ELSE tx_filas' = Append(tx_filas, u) /\ UNCHANGED tabla
                /\ ins_i' = ins_i + 1
                /\ upc' = IF ins_i + 1 = Len(df) THEN "commit" ELSE "insert"
                /\ UNCHANGED pendiente
    /\ UNCHANGED <<tabla_existe, tx_creada, df, conn, upload_ret, lotes_confirmados>>
    /\ UNCHANGED <<mainVars, readerVars, repairVars, orqVars, progVars, batchVars>>

\* conn.commit() after the insert; `return True`
UpCommit ==
    /\ upc = "commit"
    /\ tabla' = tabla \o tx_filas
    /\ tx_filas' = <<>>
    /\ lotes_confirmados' = Append(lotes_confirmados, df)
    /\ pendiente' = "True"
    /\ upc' = "finally"
    /\ UNCHANGED <<tabla_existe, tx_creada, df, conn, ins_i, upload_ret, llamada>>
    /\ UNCHANGED <<mainVars, readerVars, repairVars, orqVars, progVars, batchVars>>

\* a round trip to the server fails (pyodbc.Error) outside check_if_exists: the
\* DDL, either commit or the insert; the statement has no effect
UpFalla ==
    /\ upc \in {"ddl", "ddl_commit", "insert", "commit"}
    /\ pendiente' = "ConnectivityError"
    /\ upc' = "finally"
    /\ llamada' = [llamada EXCEPT !.fallo = TRUE, !.error_db = TRUE]
    /\ UNCHANGED <<df, conn, ins_i, upload_ret, lotes_confirmados>>
    /\ UNCHANGED <<dbVars, mainVars, readerVars, repairVars, orqVars, progVars, batchVars>>

\* the operator interrupts the process (KeyboardInterrupt) inside the try block;
\* `except Exception` in check_if_exists does not catch it
UpInterrumpir ==
    /\ upc \in {"ddl", "ddl_commit", "probe", "insert", "commit"}
    /\ pendiente' = "KeyboardInterrupt"
    /\ upc' = "finally"
    /\ llamada' = [llamada EXCEPT !.fallo = TRUE]
    /\ UNCHANGED <<df, conn, ins_i, upload_ret, lotes_confirmados>>
    /\ UNCHANGED <<dbVars, mainVars, readerVars, repairVars, orqVars, progVars, batchVars>>

\* a transaction that is committed when its connection is closed
UpFinallyCommit ==
    /\ upc = "finally"
    /\ conn' = "closed"
    /\ tabla' = tabla \o tx_filas
    /\ tabla_existe' = (tabla_existe \/ tx_creada)
    /\ tx_filas' = <<>>
    /\ tx_creada' = FALSE
    /\ llamada' = [llamada EXCEPT !.closes = @ + 1]
    /\ upload_ret' = pendiente
    /\ upc' = "fin"
    /\ UNCHANGED <<df, ins_i, pendiente, lotes_confirmados>>
    /\ UNCHANGED <<mainVars, readerVars, repairVars, orqVars, progVars, batchVars>>

\* a finally clause that leaves the connection as it is
SinCerrar(c) == c

\* conn.close()
close(c) == "closed"

\* finally: conn.close(); closing rolls back whatever was not committed, then
\* the pending return or exception leaves the function
UpFinally ==
    /\ upc = "finally"
    /\ conn' = close(conn)
    /\ tx_filas' = <<>>
    /\ tx_creada' = FALSE
    /\ llamada' = [llamada EXCEPT !.closes = @ + 1]
    /\ upload_ret' = pendiente
    /\ upc' = "fin"
    /\ UNCHANGED <<tabla_existe, tabla, df, ins_i, pendiente, lotes_confirmados>>
    /\ UNCHANGED <<mainVars, readerVars, repairVars, orqVars, progVars, batchVars>>

Upload ==
    \/ UpConnect
    \/ UpConnectFalla
    \/ UpDDL
    \/ UpDDLCommit
    \/ UpProbe
    \/ UpInsert
    \/ UpCommit
    \/ UpFalla
    \/ UpInterrumpir
    \/ UpFinally

(***************************************************************************)
(* main.py: main, one run per invocation, over the same file               *)
(***************************************************************************)

Finales == {"eof", "failed", "interrupted"}

\* the UUID column of a batch after transform_sat_batch and
\* aplicar_tipos_seguros: UUID matches no keyword of either, so it stays the
\* text column the reader produced (trimmed and upper-cased, which the UUID
\* values of archivo already are)
UuidsDelLote(lines) == lines

\* the run begins: reader = get_sat_reader(str(ruta_archivo), batch_size=...)
IniciarCorrida ==
    /\ mpc \in {"inicio"} \cup Finales
    /\ corrida < MaxRuns
    /\ corrida' = corrida + 1
    /\ mpc' = "extract"
    /\ metricas' = 0
    /\ historial' = IF mpc = "inicio" THEN historial
                    ELSE Append(historial, [estado |-> mpc, tabla |-> tabla])
    /\ f_pos' = 0
    /\ f_closed' = FALSE
    /\ closeCalls' = 0
    /\ returns' = <<>>
    /\ UNCHANGED <<archivo, batch_size, dbVars, uploadVars, repairVars, orqVars, progVars, batchVars>>

\* one turn of the loop up to the call of upload_to_sql_blindado:
\* next_batches, the EOF test, and the batch handed to upload.  SpecLoad
\* follows the upload calls the loop is written to make, the calls between
\* the read and the upload (transform_sat_batch, aplicar_tipos_seguros,
\* report.audit_batch) taken as returning; SpecMain follows those calls as
\* the code makes them.
FaseExtraer ==
    /\ mpc = "extract"
    /\ NextBatchesEffect
    /\ returns' = Append(returns, NextBatchesResult)
    /\ IF NextBatchesResult.kind = "batch"
       THEN /\ mpc' = "upload"
            /\ UploadLlamar(UuidsDelLote(NextBatchesResult.lines))
       ELSE /\ mpc' = IF NextBatchesResult.kind = "None" THEN "eof" ELSE "failed"
            /\ UNCHANGED <<upc, df, conn, ins_i, pendiente, upload_ret, llamada>>
    /\ UNCHANGED <<archivo, batch_size, lotes_confirmados, corrida, metricas, historial>>
    /\ UNCHANGED <<dbVars, repairVars, orqVars, progVars, batchVars>>

\* upload_to_sql_blindado(df_final, ...) with a frame of no rows
SubirVacio ==
    /\ mpc = "extract"
    /\ ~f_closed
    /\ UploadLlamar(<<>>)
    /\ mpc' = "upload"
    /\ UNCHANGED <<lotes_confirmados, corrida, metricas, historial>>
    /\ UNCHANGED <<dbVars, readerVars, repairVars, orqVars, progVars, batchVars>>

\* upload returned True: report.update_metrics(len(df_final))
PostOk ==
    /\ mpc = "upload" /\ upc = "fin" /\ upload_ret = "True"
    /\ metricas' = metricas + Len(df)
    /\ mpc' = "extract"
    /\ upc' = "idle"
    /\ UNCHANGED <<df, conn, ins_i, pendiente, upload_ret, llamada, lotes_confirmados>>
    /\ UNCHANGED <<corrida, historial, dbVars, readerVars, repairVars, orqVars, progVars, batchVars>>

\* upload returned False: "SQL: OMITIDO"
PostOmitido ==
    /\ mpc = "upload" /\ upc = "fin" /\ upload_ret = "False"
    /\ mpc' = "extract"
    /\ upc' = "idle"
    /\ UNCHANGED <<df, conn, ins_i, pendiente, upload_ret, llamada, lotes_confirmados>>
    /\ UNCHANGED <<corrida, metricas, historial, dbVars, readerVars, repairVars, orqVars, progVars, batchVars>>

\* a loop that takes the next batch after a failed upload
PostErrorSigue ==
    /\ mpc = "upload" /\ upc = "fin" /\ upload_ret \notin {"True", "False"}
    /\ mpc' = "extract"
    /\ upc' = "idle"
    /\ UNCHANGED <<df, conn, ins_i, pendiente, upload_ret, llamada, lotes_confirmados>>
    /\ UNCHANGED <<corrida, metricas, historial, dbVars, readerVars, repairVars, orqVars, progVars, batchVars>>

\* upload raised: `except KeyboardInterrupt` or `except Exception` ends the run
PostError ==
    /\ mpc = "upload" /\ upc = "fin" /\ upload_ret \notin {"True", "False"}
    /\ mpc' = IF upload_ret = "KeyboardInterrupt" THEN "interrupted" ELSE "failed"
    /\ upc' = "idle"
    /\ UNCHANGED <<df, conn, ins_i, pendiente, upload_ret, llamada, lotes_confirmados>>
    /\ UNCHANGED <<corrida, metricas, historial, dbVars, readerVars, repairVars, orqVars, progVars, batchVars>>

\* KeyboardInterrupt between two uploads
MainInterrumpir ==
    /\ mpc = "extract"
    /\ mpc' = "interrupted"
    /\ UNCHANGED <<corrida, metricas, historial, dbVars, uploadVars, readerVars, repairVars, orqVars, progVars, batchVars>>

(***************************************************************************)
(* Specification SpecLoad: main run up to MaxRuns times over one file with *)
(* one batch size against one target table                                 *)
(***************************************************************************)
LoadInit ==
    /\ archivo \in Archivos
    /\ batch_size \in 1..MaxBatch
    /\ f_pos = 0
    /\ f_closed = TRUE
    /\ closeCalls = 0
    /\ returns = <<>>
    /\ tabla_existe = FALSE
    /\ tabla = <<>>
    /\ tx_creada = FALSE
    /\ tx_filas = <<>>
    /\ upc = "idle"
    /\ df = <<>>
    /\ conn = "none"
    /\ ins_i = 0
    /\ pendiente = "none"
    /\ upload_ret = "none"
    /\ llamada = LlamadaNueva(<<>>)
    /\ lotes_confirmados = <<>>
    /\ mpc = "inicio"
    /\ corrida = 0
    /\ metricas = 0
    /\ historial = <<>>
    /\ RepairOff
    /\ BatchOff
    /\ ProgOff
    /\ OrqOff

LoadNext ==
    \/ IniciarCorrida
    \/ FaseExtraer
    \/ SubirVacio
    \/ Upload
    \/ PostOk
    \/ PostOmitido
    \/ PostError
    \/ MainInterrumpir

SpecLoad == LoadInit /\ [][LoadNext]_vars

\* C1: the committed rows of the target table are at every moment exactly the
\* rows of the batches whose commit succeeded; during and after an upload they
\* are the rows from before the call, or those followed by the whole batch, and
\* the whole batch is there exactly when the call returns True.
C1_BatchAtomicity ==
    /\ tabla = Aplanar(lotes_confirmados)
    /\ upc # "idle" =>
           \/ tabla = llamada.tabla
           \/ tabla = llamada.tabla \o df
    /\ (upc = "fin" /\ Len(df) > 0) =>
           (upload_ret = "True" <=> tabla = llamada.tabla \o df)

\* C1 witness: an upload failed or was interrupted after executemany had
\* inserted part of the batch, with an earlier batch already committed.
C1_Witness ==
    /\ upc = "fin"
    /\ upload_ret \in {"ConnectivityError", "KeyboardInterrupt"}
    /\ ins_i >= 1
    /\ ins_i < Len(df)
    /\ Len(tabla) > 0
    /\ tabla = llamada.tabla

\* the batch's first UUID is new but a later row's UUID is already persisted
PrimeroNuevoOtroExiste ==
    /\ Len(df) > 0
    /\ df[1] \notin Elems(llamada.tabla)
    /\ \E i \in 2..Len(df) : df[i] \in Elems(llamada.tabla)

\* C2: for such a batch the upload ends with an exception that reaches the
\* caller (the constraint violation whenever no round trip failed) and the
\* committed rows are exactly those from before the call.
C2_LaterDuplicateRollsBack ==
    (upc = "fin" /\ PrimeroNuevoOtroExiste) =>
        /\ tabla = llamada.tabla
        /\ upload_ret \notin {"True", "False", "none"}
        /\ (~llamada.fallo => upload_ret = "IntegrityError")

\* C2 witness: the first row was inserted, a later row broke the key, and the
\* call ended with the constraint violation.
C2_Witness ==
    /\ upc = "fin"
    /\ PrimeroNuevoOtroExiste
    /\ ~llamada.fallo
    /\ upload_ret = "IntegrityError"
    /\ ins_i >= 1
    /\ Len(llamada.tabla) > 0

\* C3: when the batch's first UUID is already persisted the committed rows do
\* not change and at most one conditional create is issued; when no round trip
\* failed the call returns False after exactly one create and no insert.
C3_SkippedDuplicate ==
    (upc = "fin" /\ Len(df) > 0 /\ df[1] \in Elems(llamada.tabla)) =>
        /\ tabla = llamada.tabla
        /\ llamada.ddl <= 1
        /\ (~llamada.fallo =>
               /\ upload_ret = "False"
               /\ llamada.inserts = 0
               /\ llamada.ddl = 1)

\* C3 witness: a batch was skipped on its first UUID although another of its
\* rows is not persisted.
C3_Witness ==
    /\ upc = "fin"
    /\ Len(df) > 1
    /\ df[1] \in Elems(llamada.tabla)
    /\ \E i \in 2..Len(df) : df[i] \notin Elems(llamada.tabla)
    /\ ~llamada.fallo
    /\ upload_ret = "False"

SinDuplicados(q) == \A i, j \in 1..Len(q) : i # j => q[i] # q[j]

C4_WitnessRerun ==
    /\ Len(historial) >= 1
    /\ historial[1].estado = "eof"
    /\ Len(tabla) > 1
    /\ mpc = "eof"

\* C16: a database error raised during a round trip of upload (the conditional
\* create, the duplicate probe, the insert, a commit) propagates to the caller:
\* once one was raised the call executes no further statement, it is in its
\* finally clause or has left, and what it leaves with is that error.
C16_ConnectivityErrorPropagates ==
    llamada.error_db =>
        /\ upc \in {"finally", "fin", "idle"}
        /\ upc = "fin" => upload_ret = "ConnectivityError"

\* C19: an upload call on a non-empty batch issues the conditional create
\* before the duplicate probe and before any insert, once; issued on a table
\* that exists it raises nothing and changes nothing: the table still exists,
\* its committed rows are those the call found until the call's own insert is
\* committed, and the call goes on to the probe.
C19_ConditionalCreateFirst ==
    /\ (llamada.probes > 0 \/ llamada.inserts > 0) => llamada.ddl = 1
    /\ upc \in {"ddl_commit", "probe", "insert", "commit"} => llamada.ddl = 1
    /\ (llamada.existia /\ llamada.ddl = 1) =>
           /\ tabla_existe
           /\ ~tx_creada
           /\ pendiente # "ProgrammingError"
           /\ upc \in {"ddl_commit", "probe", "insert", "commit"} => tabla = llamada.tabla
           /\ (upc = "finally" /\ llamada.probes = 0) => llamada.fallo

\* C19 witness: a call on a table that existed and held rows issued the create,
\* then the probe, inserted its batch and returned True.
C19_Witness ==
    /\ upc = "fin"
    /\ llamada.existia
    /\ Len(llamada.tabla) > 0
    /\ llamada.ddl = 1
    /\ llamada.probes = 1
    /\ llamada.inserts > 0
    /\ upload_ret = "True"
    /\ tabla = llamada.tabla \o df

\* C20: upload on an empty batch returns False having opened no connection and
\* issued no create, no probe and no insert; the store is as the call found it.
C20_EmptyBatchNoOp ==
    (Len(df) = 0 /\ upc # "idle") =>
        /\ upc = "fin"
        /\ upload_ret = "False"
        /\ conn = "none"
        /\ llamada.ddl = 0 /\ llamada.probes = 0 /\ llamada.inserts = 0
        /\ llamada.closes = 0
        /\ tabla = llamada.tabla
        /\ tabla_existe = llamada.existia
        /\ tx_filas = <<>> /\ ~tx_creada

\* C20 witness: upload returned False on an empty batch while the table held
\* rows, and it still holds them.
C20_Witness ==
    /\ upc = "fin"
    /\ Len(df) = 0
    /\ upload_ret = "False"
    /\ conn = "none"
    /\ Len(tabla) > 0
    /\ tabla = llamada.tabla

C27_SkipLosesNothing ==
    /\ (upc = "fin" /\ upload_ret = "False" /\ Len(df) > 0) =>
           Elems(df) \subseteq Elems(tabla)
    /\ mpc = "eof" => Elems(archivo) \subseteq Elems(tabla)

\* C28: an upload call that opened a connection closes it once before it
\* returns or raises, whatever the outcome, and no connection is open while
\* main is between two batches.
C28_ConnectionClosedOnce ==
    /\ llamada.closes <= 1
    /\ conn = "open" => (upc \notin {"idle", "fin", "connect"} /\ llamada.closes = 0)
    /\ (upc = "fin" /\ llamada.ddl + llamada.probes + llamada.inserts > 0) =>
           (conn = "closed" /\ llamada.closes = 1)
    /\ (upc = "fin" /\ conn # "none") => (conn = "closed" /\ llamada.closes = 1)
    /\ mpc \in {"extract", "eof", "failed", "interrupted"} => conn # "open"

\* C28 witness: a call whose insert went through and whose commit failed has
\* left with the error and the connection closed.
C28_Witness ==
    /\ upc = "fin"
    /\ upload_ret = "ConnectivityError"
    /\ llamada.inserts = Len(df)
    /\ Len(df) > 0
    /\ conn = "closed"
    /\ llamada.closes = 1

(***************************************************************************)
(* pkg/extract.py: the batches of one reader, taken together               *)
(***************************************************************************)

EsLote(r) == r.kind = "batch"

\* the lines of the batches returned so far, batch by batch
LineasDevueltas ==
    LET lotes == SelectSeq(returns, EsLote)
    IN  [i \in 1..Len(lotes) |-> lotes[i].lines]

\* C23: the reader streams forward in file order: the batches returned so
\* far are non-empty runs of at most batch_size lines whose concatenation is
\* the file's data lines up to the read position, each position once; when the
\* sentinel has been returned the concatenation is the whole file and the
\* number of batches is ceil(lines / batch_size).
C23_ForwardStreaming ==
    batch_size > 0 =>
        /\ f_pos <= Len(archivo)
        /\ \A i \in 1..Len(LineasDevueltas) :
               /\ Len(LineasDevueltas[i]) >= 1
               /\ Len(LineasDevueltas[i]) <= batch_size
               /\ returns[i].kind = "batch"
        /\ Aplanar(LineasDevueltas) = SubSeq(archivo, 1, f_pos)
        /\ (\E i \in 1..Len(returns) : returns[i].kind = "None") =>
               /\ Aplanar(LineasDevueltas) = archivo
               /\ Len(LineasDevueltas) = NumLotes

\* C23 witness: a file of four lines read two at a time up to the sentinel.
C23_Witness ==
    /\ Len(archivo) = 4
    /\ batch_size = 2
    /\ Len(returns) = 3
    /\ returns[3].kind = "None"
    /\ Len(LineasDevueltas) = 2

(***************************************************************************)
(* pkg/extract.py: from the bytes of the file to the DataFrame of a batch. *)
(* Bytes are 0..255; a byte string and a text are sequences.               *)
(***************************************************************************)

\* Python's cp1252 codec on the bytes 128..159 (position b - 127); -1 where
\* the codec defines no character (0x81, 0x8D, 0x8F, 0x90, 0x9D)
Cp1252Alto ==
    << 8364, -1, 8218, 402, 8222, 8230, 8224, 8225, 710, 8240, 352, 8249, 338, -1, 381, -1,
       -1, 8216, 8217, 8220, 8221, 8226, 8211, 8212, 732, 8482, 353, 8250, 339, -1, 382, 376 >>

\* the character of one byte under cp1252, -1 when it has none
DecodeByte(b) ==
    IF b \in 0..127 \/ b \in 160..255 THEN b
    ELSE IF b \in 128..159 THEN Cp1252Alto[b - 127]
    ELSE -1

\* the byte of one character under cp1252, -1 when it has none
EncodeChar(c) ==
    IF c \in 0..127 \/ c \in 160..255 THEN c
    ELSE IF \E b \in 128..159 : Cp1252Alto[b - 127] = c
         THEN CHOOSE b \in 128..159 : Cp1252Alto[b - 127] = c
    ELSE -1

\* open(..., encoding="cp1252", errors="replace"): a byte without a character
\* is read as U+FFFD
decode_replace(b) == IF DecodeByte(b) = -1 THEN 65533 ELSE DecodeByte(b)

\* an encoding step that hands every character on as it is
EncodeSinReemplazo(c) == c

\* str.encode("cp1252", errors="replace"): a character without a byte is
\* written as '?'
encode_replace(c) == IF EncodeChar(c) = -1 THEN 63 ELSE EncodeChar(c)

\* pl.read_csv(..., encoding="cp1252") decodes the buffer strictly
decode_strict(bs) ==
    IF \E i \in 1..Len(bs) : DecodeByte(bs[i]) = -1
    THEN [kind |-> "UnicodeDecodeError", text |-> <<>>]
    ELSE [kind |-> "ok", text |-> [i \in 1..Len(bs) |-> DecodeByte(bs[i])]]

\* the header line of the source files of the model: 'UUID|AÑO\n' in cp1252
HeaderBytes == <<85, 85, 73, 68, 124, 65, 209, 79, 10>>

\* the bytes of the data line that carries UUID value u:
\*   'u1|<0x81>Ñ€', 'u2|a', 'u3' (a field short), 'u4|a|zz' (a field long),
\*   'u5|' (an empty field), each with its line feed
LineaBytes(u) ==
    LET resto == << <<124, 129, 209, 128>>, <<124, 97>>, <<>>, <<124, 97, 124, 122, 122>>, <<124>> >>
    IN  <<117, 48 + u>> \o resto[((u - 1) % 5) + 1] \o <<10>>

\* a line as the text-mode file iterator yields it
LineaTexto(bs) == [i \in 1..Len(bs) |-> decode_replace(bs[i])]

\* self.header = next(self.f)
header == LineaTexto(HeaderBytes)

RECURSIVE Unir(_)
\* "".join(lines)
Unir(ls) == IF Len(ls) = 0 THEN <<>> ELSE Head(ls) \o Unir(Tail(ls))

\* a chunk made of the lines alone
SinEncabezado(lines) == Unir([i \in 1..Len(lines) |-> LineaTexto(LineaBytes(lines[i]))])

\* chunk_str = self.header + "".join(lines)
chunk_str(lines) == header \o Unir([i \in 1..Len(lines) |-> LineaTexto(LineaBytes(lines[i]))])

\* chunk_bytes = chunk_str.encode("cp1252", errors="replace")
chunk_bytes(lines) ==
    LET t == chunk_str(lines) IN [i \in 1..Len(t) |-> encode_replace(t[i])]

RECURSIVE Partir(_, _)
\* the pieces of t between occurrences of sep
Partir(t, sep) ==
    IF \A i \in 1..Len(t) : t[i] # sep THEN <<t>>
    ELSE LET k == CHOOSE i \in 1..Len(t) : t[i] = sep /\ \A j \in 1..(i - 1) : t[j] # sep
         IN  <<SubSeq(t, 1, k - 1)>> \o Partir(SubSeq(t, k + 1, Len(t)), sep)

\* the lines of a buffer: split at line feeds, nothing after the last one
Renglones(t) ==
    LET ps == Partir(t, 10)
    IN  IF Len(ps[Len(ps)]) = 0 THEN SubSeq(ps, 1, Len(ps) - 1) ELSE ps

\* one record of the parser: fields split at '|', cut to the header's width
\* (truncate_ragged_lines), missing fields and empty fields null
Registro(linea, ancho) ==
    LET fs == Partir(linea, 124)
    IN  [c \in 1..ancho |-> IF c > Len(fs) \/ Len(fs[c]) = 0 THEN None ELSE fs[c]]

\* pl.read_csv(io.BytesIO(chunk_bytes), separator="|", encoding="cp1252",
\* truncate_ragged_lines=True, infer_schema_length=0): every column text
read_csv(bs) ==
    LET dec == decode_strict(bs)
    IN  IF dec.kind # "ok" THEN [kind |-> dec.kind, columns |-> <<>>, rows |-> <<>>]
        ELSE LET rs == Renglones(dec.text)
                 cols == IF Len(rs) = 0 THEN <<>> ELSE Partir(rs[1], 124)
             IN  [kind |-> "ok", columns |-> cols,
                  rows |-> [r \in 1..(IF Len(rs) = 0 THEN 0 ELSE Len(rs) - 1) |->
                               Registro(rs[r + 1], Len(cols))]]

\* the DataFrame next_batches returns for the lines of one batch
DataFrameDe(lines) == read_csv(chunk_bytes(lines))

\* the fields of the header line: 'UUID', 'AÑO'
CamposDelEncabezado == << <<85, 85, 73, 68>>, <<65, 209, 79>> >>

\* C24: every batch of one reader has the header's fields as its column
\* list, in the header's order, one row per line of the batch, each row
\* beginning with its line's first field, and no row is the header.
C24_HeaderReattached ==
    \A i \in 1..Len(LineasDevueltas) :
        LET d == DataFrameDe(LineasDevueltas[i])
        IN  /\ d.kind = "ok"
            /\ d.columns = CamposDelEncabezado
            /\ Len(d.rows) = Len(LineasDevueltas[i])
            /\ \A r \in 1..Len(d.rows) :
                   /\ d.rows[r] # d.columns
                   /\ d.rows[r][1] = <<117, 48 + LineasDevueltas[i][r]>>

\* C24 witness: a reader has returned three batches of different lines.
C24_Witness ==
    /\ Len(LineasDevueltas) = 3
    /\ LineasDevueltas[1] # LineasDevueltas[2]
    /\ DataFrameDe(LineasDevueltas[3]).columns = CamposDelEncabezado

TieneReemplazo(v) == \E k \in 1..Len(v) : v[k] = 65533

\* C25: no batch fails on decoding or encoding and none holds U+FFFD, in a
\* column name or in a value; the line whose second field is the bytes
\* 0x81 0xD1 0x80 (an undefined byte, Ñ, the euro sign) yields '?Ñ€'.
C25_PermissiveDecoding ==
    \A i \in 1..Len(LineasDevueltas) :
        LET d == DataFrameDe(LineasDevueltas[i])
        IN  /\ d.kind = "ok"
            /\ \A c \in 1..Len(d.columns) : ~TieneReemplazo(d.columns[c])
            /\ \A r \in 1..Len(d.rows) :
                   /\ \A c \in 1..Len(d.rows[r]) : ~TieneReemplazo(d.rows[r][c])
                   /\ LineasDevueltas[i][r] = 1 => d.rows[r][2] = <<63, 209, 8364>>

\* C25 witness: the line with the undefined byte was read, as U+FFFD, and
\* returned in a batch.
C25_Witness ==
    /\ Len(LineasDevueltas) >= 1
    /\ LineasDevueltas[1][1] = 1
    /\ TieneReemplazo(LineaTexto(LineaBytes(1)))
    /\ DataFrameDe(LineasDevueltas[1]).rows[1][2] = <<63, 209, 8364>>

(***************************************************************************)
(* pkg/transform.py: transform_sat_batch                                   *)
(***************************************************************************)

\* Unicode White_Space below U+0100, what str.strip_chars() removes
Whitespace == {9, 10, 11, 12, 13, 32, 133, 160}

RECURSIVE LStrip(_)
LStrip(s) ==
    IF Len(s) > 0 /\ Head(s) \in Whitespace THEN LStrip(Tail(s)) ELSE s

RECURSIVE RStrip(_)
RStrip(s) ==
    IF Len(s) > 0 /\ s[Len(s)] \in Whitespace THEN RStrip(SubSeq(s, 1, Len(s) - 1)) ELSE s

\* str.strip_chars() / str.strip()
StripChars(s) == RStrip(LStrip(s))

\* the upper case of one character of the cp1252 repertoire
UpperChar(c) ==
    IF c \in 97..122 THEN <<c - 32>>                 \* a-z
    ELSE IF c \in (224..254) \ {247} THEN <<c - 32>>  \* U+00E0..U+00FE but the division sign
    ELSE IF c = 223 THEN <<83, 83>>                   \* sharp s -> SS
    ELSE IF c = 255 THEN <<376>>                      \* y diaeresis
    ELSE IF c = 181 THEN <<924>>                      \* micro sign -> capital mu
    ELSE IF c \in {353, 339, 382, 402} THEN <<c - 1>> \* s caron, oe, z caron, f hook
    ELSE <<c>>

RECURSIVE Upper(_)
\* str.to_uppercase() / str.upper()
Upper(s) ==
    IF Len(s) = 0 THEN <<>> ELSE UpperChar(Head(s)) \o Upper(Tail(s))

\* a first phase that trims and leaves the case as it is
SoloRecorta(v) ==
    IF v = None THEN None ELSE StripChars(v)

\* pl.col(pl.Utf8).str.strip_chars().str.to_uppercase() on one value
Normalizar(v) ==
    IF v = None THEN None ELSE Upper(StripChars(v))

palabras_clave == <<
    <<78, 79, 77, 66, 82, 69>>,  \* NOMBRE
    <<67, 79, 78, 67, 69, 80, 84, 79>>,  \* CONCEPTO
    <<68, 69, 83, 67, 82, 73, 80, 67, 73, 79, 78>>,  \* DESCRIPCION
    <<80, 85, 69, 83, 84, 79>>,  \* PUESTO
    <<68, 69, 80, 65, 82, 84, 65, 77, 69, 78, 84, 79>>  \* DEPARTAMENTO
>>

\* any(key in col.upper() for key in palabras_clave)
EsSensible(col) ==
    \E k \in 1..Len(palabras_clave) : Contains(Upper(col), palabras_clave[k])

\* a selection that takes every column
TodasLasColumnas(columns) == 1..Len(columns)

\* cols_a_limpiar, by position
cols_a_limpiar(columns) ==
    { i \in 1..Len(columns) : EsSensible(columns[i]) }

\* map_elements(limpiar_texto_python, return_dtype=pl.Utf8) on one value:
\* a null is passed over
MapLimpiar(v) ==
    IF v = None THEN None ELSE limpiar_texto_python(v)

transform_sat_batch(d) ==
    [columns |-> d.columns,
     rows    |-> [r \in 1..Len(d.rows) |->
                     [i \in 1..Len(d.columns) |->
                         IF i \in cols_a_limpiar(d.columns)
                         THEN MapLimpiar(Normalizar(d.rows[r][i]))
                         ELSE Normalizar(d.rows[r][i])]]]

(***************************************************************************)
(* pkg/config_master.py: REGLAS_DINAMICAS, << column name, dtype >>        *)
(***************************************************************************)
REGLAS_DINAMICAS == <<
    << <<85, 85, 73, 68>>,
       "Utf8" >>,  \* 1: UUID (line 62)
    << <<69, 77, 73, 83, 79, 82, 82, 70, 67>>,
       "Utf8" >>,  \* 2: EMISORRFC (line 63)
    << <<82, 69, 67, 69, 80, 84, 79, 82, 82, 70, 67>>,
       "Utf8" >>,  \* 3: RECEPTORRFC (line 64)
    << <<70, 69, 67, 72, 65, 69, 77, 73, 83, 73, 79, 78>>,
       "Datetime" >>,  \* 4: FECHAEMISION (line 66)
    << <<70, 69, 67, 72, 65, 67, 69, 82, 84, 73, 70, 73, 67, 65, 67, 73, 79, 78>>,
       "Datetime" >>,  \* 5: FECHACERTIFICACION (line 67)
    << <<70, 69, 67, 72, 65, 67, 65, 78, 67, 69, 76, 65, 67, 73, 79, 78>>,
       "Datetime" >>,  \* 6: FECHACANCELACION (line 68)
    << <<70, 69, 67, 72, 65, 80, 65, 71, 79>>,
       "Datetime" >>,  \* 7: FECHAPAGO (line 69)
    << <<70, 69, 67, 72, 65, 73, 78, 73, 67, 73, 65, 76, 80, 65, 71, 79>>,
       "Datetime" >>,  \* 8: FECHAINICIALPAGO (line 70)
    << <<70, 69, 67, 72, 65, 70, 73, 78, 65, 76, 80, 65, 71, 79>>,
       "Datetime" >>,  \* 9: FECHAFINALPAGO (line 71)
    << <<82, 69, 67, 69, 80, 84, 79, 82, 70, 69, 67, 72, 65, 73, 78, 73, 67, 73, 79, 82, 69, 76, 76, 65, 66, 79, 82, 65, 76>>,
       "Datetime" >>,  \* 10: RECEPTORFECHAINICIORELLABORAL (line 72)
    << <<68, 69, 83, 67, 85, 69, 78, 84, 79>>,
       "Float64" >>,  \* 11: DESCUENTO (line 74)
    << <<83, 85, 66, 84, 79, 84, 65, 76>>,
       "Float64" >>,  \* 12: SUBTOTAL (line 75)
    << <<84, 79, 84, 65, 76>>,
       "Float64" >>,  \* 13: TOTAL (line 76)
    << <<84, 82, 65, 83, 76, 65, 68, 79, 83, 73, 86, 65>>,
       "Float64" >>,  \* 14: TRASLADOSIVA (line 77)
    << <<84, 82, 65, 83, 76, 65, 68, 79, 83, 73, 69, 80, 83>>,
       "Float64" >>,  \* 15: TRASLADOSIEPS (line 78)
    << <<84, 79, 84, 65, 76, 73, 77, 80, 85, 69, 83, 84, 79, 83, 84, 82, 65, 83, 76, 65, 68, 65, 68, 79, 83>>,
       "Float64" >>,  \* 16: TOTALIMPUESTOSTRASLADADOS (line 79)
    << <<82, 69, 84, 69, 78, 73, 68, 79, 83, 73, 86, 65>>,
       "Float64" >>,  \* 17: RETENIDOSIVA (line 80)
    << <<82, 69, 84, 69, 78, 73, 68, 79, 83, 73, 83, 82>>,
       "Float64" >>,  \* 18: RETENIDOSISR (line 81)
    << <<84, 79, 84, 65, 76, 73, 77, 80, 85, 69, 83, 84, 79, 83, 82, 69, 84, 69, 78, 73, 68, 79, 83>>,
       "Float64" >>,  \* 19: TOTALIMPUESTOSRETENIDOS (line 82)
    << <<84, 73, 80, 79, 67, 65, 77, 66, 73, 79>>,
       "Float64" >>,  \* 20: TIPOCAMBIO (line 83)
    << <<67, 79, 78, 67, 69, 80, 84, 79, 67, 65, 78, 84, 73, 68, 65, 68>>,
       "Float64" >>,  \* 21: CONCEPTOCANTIDAD (line 84)
    << <<67, 79, 78, 67, 69, 80, 84, 79, 86, 65, 76, 79, 82, 85, 78, 73, 84, 65, 82, 73, 79>>,
       "Float64" >>,  \* 22: CONCEPTOVALORUNITARIO (line 85)
    << <<67, 79, 78, 67, 69, 80, 84, 79, 73, 77, 80, 79, 82, 84, 69>>,
       "Float64" >>,  \* 23: CONCEPTOIMPORTE (line 86)
    << <<78, 85, 77, 68, 73, 65, 83, 80, 65, 71, 65, 68, 79, 83>>,
       "Float64" >>,  \* 24: NUMDIASPAGADOS (line 87)
    << <<84, 79, 84, 65, 76, 80, 69, 82, 67, 69, 80, 67, 73, 79, 78, 69, 83>>,
       "Float64" >>,  \* 25: TOTALPERCEPCIONES (line 88)
    << <<84, 79, 84, 65, 76, 68, 69, 68, 85, 67, 67, 73, 79, 78, 69, 83>>,
       "Float64" >>,  \* 26: TOTALDEDUCCIONES (line 89)
    << <<84, 79, 84, 65, 76, 79, 84, 82, 79, 83, 80, 65, 71, 79, 83>>,
       "Float64" >>,  \* 27: TOTALOTROSPAGOS (line 90)
    << <<80, 69, 82, 67, 69, 80, 67, 73, 79, 78, 69, 83, 84, 79, 84, 65, 76, 71, 82, 65, 86, 65, 68, 79>>,
       "Float64" >>,  \* 28: PERCEPCIONESTOTALGRAVADO (line 91)
    << <<80, 69, 82, 67, 69, 80, 67, 73, 79, 78, 69, 83, 84, 79, 84, 65, 76, 69, 88, 69, 78, 84, 79>>,
       "Float64" >>,  \* 29: PERCEPCIONESTOTALEXENTO (line 92)
    << <<84, 79, 84, 65, 76, 79, 84, 82, 65, 83, 68, 69, 68, 85, 67, 67, 73, 79, 78, 69, 83>>,
       "Float64" >>,  \* 30: TOTALOTRASDEDUCCIONES (line 93)
    << <<78, 79, 77, 73, 78, 65, 84, 79, 84, 65, 76, 73, 77, 80, 85, 69, 83, 84, 79, 83, 82, 69, 84, 69, 78, 73, 68, 79, 83>>,
       "Float64" >>,  \* 31: NOMINATOTALIMPUESTOSRETENIDOS (line 94)
    << <<69, 77, 73, 83, 79, 82, 69, 78, 84, 73, 68, 65, 68, 83, 78, 67, 70, 77, 79, 78, 84, 79, 82, 69, 67, 85, 82, 83, 79, 80, 82, 79, 80, 73, 79>>,
       "Float64" >>,  \* 32: EMISORENTIDADSNCFMONTORECURSOPROPIO (line 95)
    << <<80, 69, 82, 67, 69, 80, 67, 73, 79, 78, 73, 77, 80, 79, 82, 84, 69, 71, 82, 65, 86, 65, 68, 79>>,
       "Float64" >>,  \* 33: PERCEPCIONIMPORTEGRAVADO (line 97)
    << <<80, 69, 82, 67, 69, 80, 67, 73, 79, 78, 73, 77, 80, 79, 82, 84, 69, 69, 88, 69, 78, 84, 79>>,
       "Float64" >>,  \* 34: PERCEPCIONIMPORTEEXENTO (line 98)
    << <<68, 69, 68, 85, 67, 67, 73, 79, 78, 69, 83, 73, 77, 80, 79, 82, 84, 69>>,
       "Float64" >>,  \* 35: DEDUCCIONESIMPORTE (line 99)
    << <<80, 69, 82, 67, 69, 80, 67, 73, 79, 78, 69, 83, 84, 79, 84, 65, 76, 83, 85, 69, 76, 68, 79, 83>>,
       "Float64" >>,  \* 36: PERCEPCIONESTOTALSUELDOS (line 100)
    << <<80, 69, 82, 67, 69, 80, 67, 73, 79, 78, 69, 83, 84, 79, 84, 65, 76, 83, 69, 80, 65, 82, 65, 67, 73, 79, 78, 73, 78, 68, 69, 77, 78, 73, 90, 65, 67, 73, 79, 78>>,
       "Float64" >>,  \* 37: PERCEPCIONESTOTALSEPARACIONINDEMNIZACION (line 101)
    << <<80, 69, 82, 67, 69, 80, 67, 73, 79, 78, 69, 83, 84, 79, 84, 65, 76, 74, 85, 66, 73, 76, 65, 67, 73, 79, 78, 80, 69, 78, 83, 73, 79, 78, 82, 69, 84, 73, 82, 79>>,
       "Float64" >>,  \* 38: PERCEPCIONESTOTALJUBILACIONPENSIONRETIRO (line 102)
    << <<74, 85, 66, 73, 76, 65, 67, 73, 79, 78, 80, 69, 78, 83, 73, 79, 78, 82, 69, 84, 73, 82, 79, 84, 79, 84, 65, 76, 85, 78, 65, 69, 88, 72, 73, 66, 73, 67, 73, 79, 78>>,
       "Float64" >>,  \* 39: JUBILACIONPENSIONRETIROTOTALUNAEXHIBICION (line 103)
    << <<74, 85, 66, 73, 76, 65, 67, 73, 79, 78, 80, 69, 78, 83, 73, 79, 78, 82, 69, 84, 73, 82, 79, 84, 79, 84, 65, 76, 80, 65, 82, 67, 73, 65, 76, 73, 68, 65, 68>>,
       "Float64" >>,  \* 40: JUBILACIONPENSIONRETIROTOTALPARCIALIDAD (line 104)
    << <<74, 85, 66, 73, 76, 65, 67, 73, 79, 78, 80, 69, 78, 83, 73, 79, 78, 82, 69, 84, 73, 82, 79, 77, 79, 78, 84, 79, 68, 73, 65, 82, 73, 79>>,
       "Float64" >>,  \* 41: JUBILACIONPENSIONRETIROMONTODIARIO (line 105)
    << <<74, 85, 66, 73, 76, 65, 67, 73, 79, 78, 80, 69, 78, 83, 73, 79, 78, 82, 69, 84, 73, 82, 79, 73, 78, 71, 82, 69, 83, 79, 65, 67, 85, 77, 85, 76, 65, 66, 76, 69>>,
       "Float64" >>,  \* 42: JUBILACIONPENSIONRETIROINGRESOACUMULABLE (line 106)
    << <<74, 85, 66, 73, 76, 65, 67, 73, 79, 78, 80, 69, 78, 83, 73, 79, 78, 82, 69, 84, 73, 82, 79, 73, 78, 71, 82, 69, 83, 79, 78, 79, 65, 67, 85, 77, 85, 76, 65, 66, 76, 69>>,
       "Float64" >>,  \* 43: JUBILACIONPENSIONRETIROINGRESONOACUMULABLE (line 107)
    << <<83, 69, 80, 65, 82, 65, 67, 73, 79, 78, 73, 78, 68, 69, 77, 78, 73, 90, 65, 67, 73, 79, 78, 84, 79, 84, 65, 76, 80, 65, 71, 65, 68, 79>>,
       "Float64" >>,  \* 44: SEPARACIONINDEMNIZACIONTOTALPAGADO (line 108)
    << <<83, 69, 80, 65, 82, 65, 67, 73, 79, 78, 73, 78, 68, 69, 77, 78, 73, 90, 65, 67, 73, 79, 78, 85, 76, 84, 73, 77, 79, 83, 85, 69, 76, 68, 79, 77, 69, 78, 83, 79, 82, 68>>,
       "Float64" >>,  \* 45: SEPARACIONINDEMNIZACIONULTIMOSUELDOMENSORD (line 109)
    << <<83, 69, 80, 65, 82, 65, 67, 73, 79, 78, 73, 78, 68, 69, 77, 78, 73, 90, 65, 67, 73, 79, 78, 73, 78, 71, 82, 69, 83, 79, 65, 67, 85, 77, 85, 76, 65, 66, 76, 69>>,
       "Float64" >>,  \* 46: SEPARACIONINDEMNIZACIONINGRESOACUMULABLE (line 110)
    << <<83, 69, 80, 65, 82, 65, 67, 73, 79, 78, 73, 78, 68, 69, 77, 78, 73, 90, 65, 67, 73, 79, 78, 73, 78, 71, 82, 69, 83, 79, 78, 79, 65, 67, 85, 77, 85, 76, 65, 66, 76, 69>>,
       "Float64" >>,  \* 47: SEPARACIONINDEMNIZACIONINGRESONOACUMULABLE (line 111)
    << <<73, 77, 80, 79, 82, 84, 69>>,
       "Float64" >>,  \* 48: IMPORTE (line 112)
    << <<83, 85, 66, 83, 73, 68, 73, 79, 67, 65, 85, 83, 65, 68, 79>>,
       "Float64" >>  \* 49: SUBSIDIOCAUSADO (line 113)
>>

(***************************************************************************)
(* pkg/enforcer.py: aplicar_tipos_seguros                                  *)
(***************************************************************************)
K_FECHA == <<70, 69, 67, 72, 65>>  \* 'FECHA'
K_DIAS == <<68, 73, 65, 83>>  \* 'DIAS'
K_CANTIDAD == <<67, 65, 78, 84, 73, 68, 65, 68>>  \* 'CANTIDAD'

ClavesFinancieras == <<
    <<84, 79, 84, 65, 76>>,  \* TOTAL
    <<73, 77, 80, 79, 82, 84, 69>>,  \* IMPORTE
    <<83, 85, 66, 84, 79, 84, 65, 76>>,  \* SUBTOTAL
    <<68, 69, 83, 67, 85, 69, 78, 84, 79>>,  \* DESCUENTO
    <<84, 82, 65, 83, 76, 65, 68, 79, 83>>,  \* TRASLADOS
    <<82, 69, 84, 69, 78, 73, 68, 79, 83>>,  \* RETENIDOS
    <<77, 79, 78, 84, 79>>,  \* MONTO
    <<86, 65, 76, 79, 82>>,  \* VALOR
    <<83, 65, 76, 68, 79>>  \* SALDO
>>

\* the dtype the chain of tests gives a Utf8 column named col
TipoPorNombre(col) ==
    LET col_up == Upper(col)
    IN  IF Contains(col_up, K_FECHA) THEN "Datetime"
        ELSE IF \E k \in 1..Len(ClavesFinancieras) : Contains(col_up, ClavesFinancieras[k])
             THEN "Float64"
        ELSE IF Contains(col_up, K_DIAS) \/ Contains(col_up, K_CANTIDAD) THEN "Float64"
        ELSE "Utf8"

\* ---- the values of a typed column: a Float64 is << -2, num, esc >> for
\* num / 10^esc with no trailing zero in the fraction, a Datetime is
\* << -3, year, month, day, hour, minute, second >>
Flotante(num, esc) == <<-2, num, esc>>
FechaHora(a, m, d, h, mi, s) == <<-3, a, m, d, h, mi, s>>

EsDigitos(s) == \A i \in 1..Len(s) : s[i] \in 48..57

RECURSIVE ValorDecimal(_)
\* the number a string of digits writes
ValorDecimal(s) ==
    IF Len(s) = 0 THEN 0
    ELSE 10 * ValorDecimal(SubSeq(s, 1, Len(s) - 1)) + (s[Len(s)] - 48)

RECURSIVE SinCerosFinales(_)
SinCerosFinales(s) ==
    IF Len(s) > 0 /\ s[Len(s)] = 48 THEN SinCerosFinales(SubSeq(s, 1, Len(s) - 1)) ELSE s

\* cast(pl.Float64, strict=False) on one value: an optional sign, digits with
\* at most one point and at least one digit; anything else (a comma, a
\* letter, a blank, the empty string) gives null. Exponents and the words
\* inf and nan, which the cast also reads, are outside the values enumerated.
CastFloat64(v) ==
    IF v = None THEN None
    ELSE LET signo  == IF Len(v) > 0 /\ v[1] \in {43, 45} THEN 1 ELSE 0
             cuerpo == SubSeq(v, signo + 1, Len(v))
             puntos == { i \in 1..Len(cuerpo) : cuerpo[i] = 46 }
             p      == IF puntos = {} THEN Len(cuerpo) + 1 ELSE CHOOSE i \in puntos : TRUE
             ent    == SubSeq(cuerpo, 1, p - 1)
             frac   == SinCerosFinales(SubSeq(cuerpo, p + 1, Len(cuerpo)))
             abs    == ValorDecimal(ent \o frac)
         IN  IF /\ Cardinality(puntos) <= 1
                /\ EsDigitos(ent) /\ EsDigitos(SubSeq(cuerpo, p + 1, Len(cuerpo)))
                /\ Len(cuerpo) - Cardinality(puntos) > 0
             THEN Flotante(IF signo = 1 /\ v[1] = 45 THEN 0 - abs ELSE abs, Len(frac))
             ELSE None

\* the value whole, no slice
SinRecorte(v, n) == v

\* str.slice(0, n) on one value
StrSlice(v, n) ==
    IF v = None THEN None
    ELSE SubSeq(v, 1, IF Len(v) < n THEN Len(v) ELSE n)

DiasDelMes(a, m) ==
    IF m \in {4, 6, 9, 11} THEN 30
    ELSE IF m = 2
         THEN (IF (a % 4 = 0 /\ a % 100 # 0) \/ a % 400 = 0 THEN 29 ELSE 28)
    ELSE 31

\* one value against the formats `%Y-%m-%d %H:%M:%S` and `%Y-%m-%dT%H:%M:%S`
\* of the year-month-day family; the values enumerated are of these formats
\* or of no format the inference knows
ParseDatetime(v) ==
    IF Len(v) # 19 THEN None
    ELSE LET n(i, j) == ValorDecimal(SubSeq(v, i, j))
         IN  IF /\ EsDigitos(SubSeq(v, 1, 4)) /\ v[5] = 45
                /\ EsDigitos(SubSeq(v, 6, 7)) /\ v[8] = 45
                /\ EsDigitos(SubSeq(v, 9, 10)) /\ v[11] \in {32, 84}
                /\ EsDigitos(SubSeq(v, 12, 13)) /\ v[14] = 58
                /\ EsDigitos(SubSeq(v, 15, 16)) /\ v[17] = 58
                /\ EsDigitos(SubSeq(v, 18, 19))
                /\ n(6, 7) \in 1..12
                /\ n(9, 10) \in 1..DiasDelMes(n(1, 4), n(6, 7))
                /\ n(12, 13) < 24 /\ n(15, 16) < 60 /\ n(18, 19) < 60
             THEN FechaHora(n(1, 4), n(6, 7), n(9, 10), n(12, 13), n(15, 16), n(18, 19))
             ELSE None

\* str.to_datetime(strict=False) with no format, on a column: the format is
\* inferred from the values; with no value at all the column is all null,
\* with values but none that fits a known format the expression raises
\* ComputeError whatever strict says, otherwise a value that does not fit
\* becomes null
to_datetime(col) ==
    LET parsed == [r \in 1..Len(col) |->
                      IF col[r] = None THEN None ELSE ParseDatetime(col[r])]
    IN  IF \A r \in 1..Len(col) : col[r] = None
        THEN [kind |-> "ok", vals |-> col]
        ELSE IF \A r \in 1..Len(col) : parsed[r] = None
             THEN [kind |-> "ComputeError", vals |-> <<>>]
        ELSE [kind |-> "ok", vals |-> parsed]

\* the i-th column of a batch, top to bottom
Columna(d, i) == [r \in 1..Len(d.rows) |-> d.rows[r][i]]

\* the expression the loop builds for column i, applied to the column
ColumnaTipada(d, i) ==
    LET tipo == TipoPorNombre(d.columns[i])
        col  == Columna(d, i)
    IN  IF tipo = "Datetime"
        THEN to_datetime([r \in 1..Len(col) |-> StrSlice(col[r], 19)])
        ELSE IF tipo = "Float64"
             THEN [kind |-> "ok",
                   vals |-> [r \in 1..Len(col) |-> CastFloat64(IF col[r] = None THEN None ELSE StripChars(col[r]))]]
        ELSE [kind |-> "ok", vals |-> col]

\* a coercion that names each column it returns by the upper-cased name
AliasEnMayusculas(d, reglas_globales) ==
    [kind |-> "ok",
     columns |-> [i \in 1..Len(d.columns) |-> Upper(d.columns[i])],
     rows |-> [r \in 1..Len(d.rows) |->
                  [i \in 1..Len(d.columns) |->
                      IF ColumnaTipada(d, i).kind = "ok"
                      THEN ColumnaTipada(d, i).vals[r] ELSE None]],
     schema |-> [i \in 1..Len(d.columns) |-> TipoPorNombre(d.columns[i])]]

\* aplicar_tipos_seguros(d, reglas_globales) for a batch d of Utf8 columns;
\* reglas_globales is a parameter the function never reads
aplicar_tipos_seguros(d, reglas_globales) ==
    IF Len(d.rows) = 0
    THEN [kind |-> "ok", columns |-> d.columns, rows |-> d.rows,
          schema |-> [i \in 1..Len(d.columns) |-> "Utf8"]]
    ELSE IF \E i \in 1..Len(d.columns) : ColumnaTipada(d, i).kind = "ComputeError"
         THEN [kind |-> "ComputeError", columns |-> <<>>, rows |-> <<>>, schema |-> <<>>]
    ELSE [kind |-> "ok",
          columns |-> d.columns,
          rows |-> [r \in 1..Len(d.rows) |->
                       [i \in 1..Len(d.columns) |-> ColumnaTipada(d, i).vals[r]]],
          schema |-> [i \in 1..Len(d.columns) |-> TipoPorNombre(d.columns[i])]]

(***************************************************************************)
(* pkg/load.py: create_table_dynamic, the column definitions               *)
(***************************************************************************)
\* << keyword, storage type >>, in the order of the dict
business_lengths == <<
    << <<82, 70, 67>>, "VARCHAR(13)" >>,  \* RFC
    << <<85, 85, 73, 68>>, "VARCHAR(36) NOT NULL PRIMARY KEY" >>,  \* UUID
    << <<67, 85, 82, 80>>, "VARCHAR(18)" >>,  \* CURP
    << <<77, 79, 78, 69, 68, 65>>, "VARCHAR(10)" >>,  \* MONEDA
    << <<84, 73, 80, 79>>, "VARCHAR(10)" >>,  \* TIPO
    << <<77, 69, 84, 79, 68, 79, 80, 65, 71, 79>>, "VARCHAR(5)" >>,  \* METODOPAGO
    << <<70, 79, 82, 77, 65, 80, 65, 71, 79>>, "VARCHAR(5)" >>,  \* FORMAPAGO
    << <<83, 69, 82, 73, 69>>, "VARCHAR(50)" >>,  \* SERIE
    << <<70, 79, 76, 73, 79>>, "VARCHAR(50)" >>,  \* FOLIO
    << <<78, 85, 77, 69, 77, 80, 76, 69, 65, 68, 79>>, "VARCHAR(50)" >>,  \* NUMEMPLEADO
    << <<66, 65, 78, 67, 79>>, "VARCHAR(10)" >>,  \* BANCO
    << <<67, 65, 77, 66, 73, 79>>, "DECIMAL(18,4)" >>  \* CAMBIO
>>

K_CAMBIO == <<67, 65, 77, 66, 73, 79>>  \* 'CAMBIO'

\* next((val for key, val in business_lengths.items() if key in col_up), None)
found_length(col_up) ==
    LET hits == { k \in 1..Len(business_lengths) : Contains(col_up, business_lengths[k][1]) }
    IN  IF hits = {} THEN "None"
        ELSE business_lengths[CHOOSE k \in hits : \A j \in hits : k <= j][2]

\* the storage type of a column named col whose dtype in the batch is dtype
TipoSql(col, dtype) ==
    LET col_up == Upper(col)
    IN  IF found_length(col_up) # "None" THEN found_length(col_up)
        ELSE IF dtype = "Datetime" THEN "DATETIME2(0)"
        ELSE IF dtype = "Float64"
             THEN (IF Contains(col_up, K_CAMBIO) THEN "DECIMAL(18,4)" ELSE "DECIMAL(18,2)")
        ELSE "VARCHAR(MAX)"

(***************************************************************************)
(* Specification SpecBatch: one batch through transform_sat_batch and      *)
(* aplicar_tipos_seguros, as in main's loop                                *)
(***************************************************************************)

\* rows of the batches enumerated
MaxFilas == 2

Col_UUID == <<85, 85, 73, 68>>  \* 'UUID'
Col_NOMBRE == <<78, 79, 77, 66, 82, 69>>  \* 'NOMBRE'
Col_TOTAL == <<84, 79, 84, 65, 76>>  \* 'TOTAL'
Col_nombre == <<110, 111, 109, 98, 114, 101>>  \* 'nombre'
Col_EmisorNombre == <<69, 109, 105, 115, 111, 114, 78, 111, 109, 98, 114, 101>>  \* 'EmisorNombre'
Col_ConceptoDescripcion == <<67, 111, 110, 99, 101, 112, 116, 111, 68, 101, 115, 99, 114, 105, 112, 99, 105, 111, 110>>  \* 'ConceptoDescripcion'
Col_ReceptorPuesto == <<82, 101, 99, 101, 112, 116, 111, 114, 80, 117, 101, 115, 116, 111>>  \* 'ReceptorPuesto'
Col_ReceptorDepartamento == <<82, 101, 99, 101, 112, 116, 111, 114, 68, 101, 112, 97, 114, 116, 97, 109, 101, 110, 116, 111>>  \* 'ReceptorDepartamento'
Col_MetodoPago == <<77, 101, 116, 111, 100, 111, 80, 97, 103, 111>>  \* 'MetodoPago'
Col_Moneda == <<77, 111, 110, 101, 100, 97>>  \* 'Moneda'
Col_FechaEmision == <<70, 101, 99, 104, 97, 69, 109, 105, 115, 105, 111, 110>>  \* 'FechaEmision'
Col_ConceptoImporte == <<67, 111, 110, 99, 101, 112, 116, 111, 73, 109, 112, 111, 114, 116, 101>>  \* 'ConceptoImporte'
Col_TipoCambio == <<84, 105, 112, 111, 67, 97, 109, 98, 105, 111>>  \* 'TipoCambio'
V_compaia == <<32, 99, 111, 109, 112, 97, 105, 97, 32>>  \* ' compaia '
V_enie == <<97, 227, 177, 111>>  \* 'a\xe3\xb1o'
V_17_5 == <<49, 55, 46, 53>>  \* '17.5'
V_fecha == <<50, 48, 50, 52, 45, 48, 53, 45, 48, 49, 32, 49, 48, 58, 50, 50, 58, 53, 57>>  \* '2024-05-01 10:22:59'
V_fecha_ms == <<50, 48, 50, 52, 45, 48, 53, 45, 48, 49, 32, 49, 48, 58, 50, 50, 58, 53, 57, 46, 49, 50, 51>>  \* '2024-05-01 10:22:59.123'
V_NA == <<78, 47, 65>>  \* 'N/A'
V_1_234_50 == <<32, 49, 44, 50, 51, 52, 46, 53, 48>>  \* ' 1,234.50'
V_nino == <<110, 105, 195, 177, 111>>  \* 'ni\xc3\xb1o'
Col_SaldoFecha == <<83, 97, 108, 100, 111, 70, 101, 99, 104, 97>>  \* 'SaldoFecha'
V_uuid == <<97, 98, 45, 48, 49>>  \* 'ab-01'

NombresDeReglas == { REGLAS_DINAMICAS[k][1] : k \in 1..Len(REGLAS_DINAMICAS) }

Encabezados ==
    { <<n>> : n \in NombresDeReglas \cup
                    {Col_UUID, Col_NOMBRE, Col_nombre, Col_EmisorNombre,
                     Col_ConceptoDescripcion, Col_ReceptorPuesto,
                     Col_ReceptorDepartamento, Col_MetodoPago, Col_Moneda,
                     Col_FechaEmision, Col_ConceptoImporte, Col_TipoCambio,
                     Col_SaldoFecha} }
        \cup { <<Col_UUID, Col_NOMBRE, Col_TOTAL>> }

\* the values a one-column batch is filled with: dates and what stands in
\* for a missing date under a date heading, names under a descriptive
\* heading, amounts elsewhere
ValoresDe(col) ==
    IF Contains(Upper(col), K_FECHA) THEN {None, V_fecha, V_fecha_ms, V_NA}
    ELSE IF EsSensible(col) THEN {None, V_compaia, V_enie, V_17_5}
    ELSE {None, V_17_5, V_1_234_50, V_NA}

\* the rows a batch under heading h is filled with
FilasPosibles(h) ==
    IF Len(h) = 1 THEN { <<v>> : v \in ValoresDe(h[1]) }
    ELSE { <<V_uuid, V_compaia, V_17_5>>,
           <<V_uuid, V_nino, V_1_234_50>>,
           <<V_uuid, None, None>> }

BatchInit ==
    /\ \E h \in Encabezados, n \in 0..MaxFilas :
           \E filas \in [1..n -> FilasPosibles(h)] :
               df_batch = [columns |-> h, rows |-> filas]
    /\ df_processed = DfVacio
    /\ reparadas = {}
    /\ esquema_final = <<>>
    /\ df_final = SinResultado
    /\ column_defs = <<>>
    /\ bpc = "raw"
    /\ ProgOff
    /\ RepairOff
    /\ ReaderOff
    /\ LoadOff
    /\ OrqOff

\* df_processed = transform_sat_batch(df_batch)
Transformar ==
    /\ bpc = "raw"
    /\ df_processed' = transform_sat_batch(df_batch)
    /\ reparadas' = cols_a_limpiar(df_batch.columns)
    /\ bpc' = "transformed"
    /\ UNCHANGED <<df_batch, esquema_final, df_final, column_defs, repairVars, orqVars, progVars, readerVars, loadVars>>

\* df_final = aplicar_tipos_seguros(df_processed, REGLAS_DINAMICAS)
Tipar ==
    /\ bpc = "transformed"
    /\ df_final' = aplicar_tipos_seguros(df_processed, REGLAS_DINAMICAS)
    /\ esquema_final' = df_final'.schema
    /\ bpc' = IF df_final'.kind = "ok" THEN "typed" ELSE "failed"
    /\ UNCHANGED <<df_batch, df_processed, reparadas, column_defs, repairVars, orqVars, progVars, readerVars, loadVars>>

\* create_table_dynamic(cursor, table_name, df_final), as upload_to_sql_blindado
\* calls it on a batch that is not empty: the loop over df.columns
DefinirColumnas ==
    /\ bpc = "typed"
    /\ Len(df_final.rows) > 0
    /\ column_defs' = [i \in 1..Len(df_final.columns) |->
                           TipoSql(df_final.columns[i], df_final.schema[i])]
    /\ bpc' = "ddl"
    /\ UNCHANGED <<df_batch, df_processed, reparadas, esquema_final, df_final>>
    /\ UNCHANGED <<repairVars, orqVars, progVars, readerVars, loadVars>>

BatchNext ==
    \/ Transformar
    \/ Tipar
    \/ DefinirColumnas

SpecBatch == BatchInit /\ [][BatchNext]_vars

K_UUID == <<85, 85, 73, 68>>  \* 'UUID'
K_RFC == <<82, 70, 67>>  \* 'RFC'
K_CURP == <<67, 85, 82, 80>>  \* 'CURP'

\* the dtype REGLAS_DINAMICAS names for col (exact name, any case), else "none"
TipoEnReglas(col) ==
    IF \E k \in 1..Len(REGLAS_DINAMICAS) : REGLAS_DINAMICAS[k][1] = Upper(col)
    THEN LET k == CHOOSE k \in 1..Len(REGLAS_DINAMICAS) : REGLAS_DINAMICAS[k][1] = Upper(col)
         IN  REGLAS_DINAMICAS[k][2]
    ELSE "none"

\* an identifier column: one of the fixed business identifiers (RFC, UUID, CURP)
EsIdentificador(col) ==
    \/ Contains(Upper(col), K_UUID)
    \/ Contains(Upper(col), K_RFC)
    \/ Contains(Upper(col), K_CURP)

\* C9: in a batch with rows, a column is mapped through limpiar_texto_python
\* only if its name matches a sensitive keyword, and never when it is an
\* identifier column or a column that REGLAS_DINAMICAS or the keyword inference
\* makes Float64 or Datetime.
C9_RepairOnlyDescriptive ==
    (bpc = "typed" /\ Len(df_batch.rows) > 0) =>
        \A i \in reparadas :
            /\ EsSensible(df_batch.columns[i])
            /\ ~EsIdentificador(df_batch.columns[i])
            /\ TipoEnReglas(df_batch.columns[i]) \notin {"Float64", "Datetime"}
            /\ TipoPorNombre(df_batch.columns[i]) \notin {"Float64", "Datetime"}

\* C10: in a batch with rows, every column that REGLAS_DINAMICAS names (exact
\* name, any case) as Float64 or Datetime has that dtype when
\* aplicar_tipos_seguros returns.
C10_ExplicitRuleFirst ==
    (bpc = "typed" /\ Len(df_batch.rows) > 0) =>
        \A i \in 1..Len(df_batch.columns) :
            TipoEnReglas(df_batch.columns[i]) \in {"Float64", "Datetime"} =>
                esquema_final[i] = TipoEnReglas(df_batch.columns[i])

\* C11: coercion never raises, and a value that does not parse under the
\* type inferred for its column is null in the output: once
\* aplicar_tipos_seguros has been called it has returned a batch, in which a
\* date column holds the parsed date or null and an amount column the parsed
\* number or null.
C11_CoercionNonStrict ==
    bpc \in {"typed", "failed"} =>
        /\ df_final.kind = "ok"
        /\ \A i \in 1..Len(df_processed.columns) : \A r \in 1..Len(df_processed.rows) :
               LET antes == df_processed.rows[r][i]
               IN  /\ (esquema_final[i] = "Datetime" /\ antes = V_NA)
                          => df_final.rows[r][i] = None
                   /\ (esquema_final[i] = "Float64" /\ antes = StripChars(V_1_234_50))
                          => df_final.rows[r][i] = None

\* the columns whose upper-cased name holds one of the keywords
ConClave(col, claves) == \E k \in claves : Contains(Upper(col), k)

Financieras == { ClavesFinancieras[k] : k \in 1..Len(ClavesFinancieras) }

\* C12: when coercion returns a batch with rows, each column is classified by
\* the first test its upper-cased name passes: FECHA gives a Datetime parsed
\* from the first 19 characters (so '2024-05-01 10:22:59.123' is
\* 2024-05-01 10:22:59), then a financial keyword gives a Float64 parsed after
\* trimming, then DIAS or CANTIDAD the same, and otherwise the column stays
\* Utf8 with its values unchanged.
C12_KeywordInference ==
    (bpc = "typed" /\ Len(df_processed.rows) > 0) =>
        \A i \in 1..Len(df_processed.columns) : \A r \in 1..Len(df_processed.rows) :
            LET col     == df_processed.columns[i]
                antes   == df_processed.rows[r][i]
                despues == df_final.rows[r][i]
            IN  /\ IF ConClave(col, {K_FECHA})
                   THEN /\ esquema_final[i] = "Datetime"
                        /\ despues = IF antes = None THEN None
                                     ELSE ParseDatetime(SubSeq(antes, 1, IF Len(antes) < 19 THEN Len(antes) ELSE 19))
                   ELSE IF ConClave(col, Financieras) \/ ConClave(col, {K_DIAS, K_CANTIDAD})
                        THEN /\ esquema_final[i] = "Float64"
                             /\ despues = IF antes = None THEN None
                                          ELSE CastFloat64(StripChars(antes))
                   ELSE /\ esquema_final[i] = "Utf8"
                        /\ despues = antes
                /\ (ConClave(col, {K_FECHA}) /\ antes = V_fecha_ms)
                       => despues = FechaHora(2024, 5, 1, 10, 22, 59)
                /\ (ConClave(col, Financieras) /\ antes = V_17_5)
                       => despues = Flotante(175, 1)

\* C12 witness: a column whose name holds both SALDO and FECHA came out as a
\* Datetime, with '2024-05-01 10:22:59.123' parsed to the second and 'N/A'
\* null beside it.
C12_Witness ==
    /\ bpc = "typed"
    /\ df_batch.columns = <<Col_SaldoFecha>>
    /\ df_batch.rows = << <<V_fecha_ms>>, <<V_NA>> >>
    /\ esquema_final = <<"Datetime">>
    /\ df_final.rows = << <<FechaHora(2024, 5, 1, 10, 22, 59)>>, <<None>> >>

V_NINO == <<78, 73, 209, 79>>  \* 'NIÑO'
V_COMPANIA == <<67, 79, 77, 80, 65, 209, 73, 65>>  \* 'COMPAÑIA'

\* C17: under the heading UUID|NOMBRE|TOTAL, transform_sat_batch repairs the
\* NOMBRE column and no other: a NOMBRE value holding U+00C3 U+00B1 has
\* U+00D1 in its place, 'COMPAIA' becomes 'COMPAÑIA', and the UUID and TOTAL
\* values are only trimmed and upper-cased.
C17_RepairNombre ==
    (bpc \in {"transformed", "typed", "failed"}
         /\ df_batch.columns = <<Col_UUID, Col_NOMBRE, Col_TOTAL>>) =>
        /\ reparadas = {2}
        /\ \A r \in 1..Len(df_batch.rows) :
               LET crudo == df_batch.rows[r]
                   limpio == df_processed.rows[r]
               IN  /\ limpio[1] = Normalizar(crudo[1])
                   /\ limpio[3] = Normalizar(crudo[3])
                   /\ (crudo[2] # None /\ Contains(crudo[2], <<195, 177>>)) =>
                          /\ ~Contains(limpio[2], <<195, 177>>)
                          /\ limpio[2] = StrReplace(Normalizar(crudo[2]), <<195, 177>>, <<209>>)
                   /\ crudo[2] = V_nino => limpio[2] = V_NINO
                   /\ crudo[2] = V_compaia => limpio[2] = V_COMPANIA

\* C17 witness: a batch under UUID|NOMBRE|TOTAL with both NOMBRE values has
\* been transformed.
C17_Witness ==
    /\ bpc = "transformed"
    /\ df_batch.columns = <<Col_UUID, Col_NOMBRE, Col_TOTAL>>
    /\ df_batch.rows = << <<V_uuid, V_nino, V_1_234_50>>, <<V_uuid, V_compaia, V_17_5>> >>
    /\ df_processed.rows[1][2] = V_NINO
    /\ df_processed.rows[2][2] = V_COMPANIA

\* C18: when coercion returns, the batch has the column names of its input in
\* the same order and as many rows, each as wide; an empty batch comes back
\* as it went in, every column still Utf8.
C18_ShapePreserved ==
    bpc = "typed" =>
        /\ df_final.columns = df_processed.columns
        /\ Len(df_final.rows) = Len(df_processed.rows)
        /\ \A r \in 1..Len(df_final.rows) : Len(df_final.rows[r]) = Len(df_processed.columns)
        /\ Len(esquema_final) = Len(df_processed.columns)
        /\ Len(df_processed.rows) = 0 =>
               /\ df_final.rows = df_processed.rows
               /\ \A i \in 1..Len(esquema_final) : esquema_final[i] = "Utf8"

\* C18 witness: a batch of two rows under a mixed-case heading whose column
\* changed type has come back from coercion.
C18_Witness ==
    /\ bpc = "typed"
    /\ df_batch.columns = <<Col_FechaEmision>>
    /\ Len(df_final.rows) = 2
    /\ esquema_final = <<"Datetime">>
    /\ df_final.rows[1] # df_processed.rows[1]

\* C29: transform_sat_batch keeps the column list, its order and the row
\* count; a null stays null; a value under a name with no sensitive keyword
\* comes out trimmed and upper-cased ('ab-01' under UUID as 'AB-01'), a value
\* under a sensitive name as the repair of its trimmed, upper-cased text.
C29_TransformFrame ==
    bpc = "transformed" =>
        /\ df_processed.columns = df_batch.columns
        /\ Len(df_processed.rows) = Len(df_batch.rows)
        /\ \A r \in 1..Len(df_batch.rows) :
               /\ Len(df_processed.rows[r]) = Len(df_batch.columns)
               /\ \A i \in 1..Len(df_batch.columns) :
                      LET v == df_batch.rows[r][i]
                          w == df_processed.rows[r][i]
                          sensible == \E k \in 1..Len(palabras_clave) :
                                          Contains(Upper(df_batch.columns[i]), palabras_clave[k])
                      IN  /\ v = None => w = None
                          /\ (v # None /\ ~sensible) => w = Upper(StripChars(v))
                          /\ (v # None /\ sensible) =>
                                 w = limpiar_texto_python(Upper(StripChars(v)))
                          /\ v = V_uuid => w = <<65, 66, 45, 48, 49>>

\* C29 witness: a batch under UUID|NOMBRE|TOTAL with a row of values and a
\* row with nulls has been transformed.
C29_Witness ==
    /\ bpc = "transformed"
    /\ df_batch.columns = <<Col_UUID, Col_NOMBRE, Col_TOTAL>>
    /\ Len(df_batch.rows) = 2
    /\ df_batch.rows[1] = <<V_uuid, V_nino, V_1_234_50>>
    /\ df_batch.rows[2] = <<V_uuid, None, None>>
    /\ df_processed.rows[1][1] = <<65, 66, 45, 48, 49>>
    /\ df_processed.rows[1][2] = V_NINO
    /\ df_processed.rows[2][3] = None

\* the business keywords that name an identifier or a code
ClavesDeCodigo == { business_lengths[k][1] : k \in 1..Len(business_lengths) } \ {K_CAMBIO}

TiposDeAnchoFijo ==
    { business_lengths[k][2] : k \in { j \in 1..Len(business_lengths) :
                                           business_lengths[j][1] # K_CAMBIO } }

Col_TIPOCAMBIO == <<84, 73, 80, 79, 67, 65, 77, 66, 73, 79>>  \* 'TIPOCAMBIO'

\* C13: in the column definitions of the create-table statement a column
\* whose name holds an identifier or code keyword has a fixed-width type,
\* otherwise a Datetime column is DATETIME2(0), otherwise a Float64 column is
\* DECIMAL(18,4) when its name holds CAMBIO and DECIMAL(18,2) when not,
\* otherwise the column is VARCHAR(MAX); and the exchange-rate column
\* TIPOCAMBIO is DECIMAL(18,4).
C13_StoragePrecedence ==
    bpc = "ddl" =>
        \A i \in 1..Len(df_final.columns) :
            LET col == df_final.columns[i]
            IN  /\ IF ConClave(col, ClavesDeCodigo)
                   THEN column_defs[i] \in TiposDeAnchoFijo
                   ELSE IF esquema_final[i] = "Datetime"
                        THEN column_defs[i] = "DATETIME2(0)"
                   ELSE IF esquema_final[i] = "Float64"
                        THEN column_defs[i] = IF ConClave(col, {K_CAMBIO})
                                              THEN "DECIMAL(18,4)" ELSE "DECIMAL(18,2)"
                   ELSE column_defs[i] = "VARCHAR(MAX)"
                /\ Upper(col) = Col_TIPOCAMBIO => column_defs[i] = "DECIMAL(18,4)"

(***************************************************************************)
(* pkg/config_master.py: CONFIG_TABLAS, SUFIJO, obtener_meta               *)
(***************************************************************************)
CONFIG_TABLAS == <<
    [id |-> <<49, 65>>,  \* 1A
     db |-> <<83, 65, 84, 95, 86, 50>>,  \* SAT_V2
     table |-> <<65, 78, 69, 88, 79, 95, 49, 65>>,  \* ANEXO_1A
     file |-> <<71, 69, 82, 71, 95, 65, 69, 67, 70, 95, 49, 56, 57, 49, 95, 65, 110, 101, 120, 111, 49, 65, 45, 81, 65, 46, 116, 120, 116>>],  \* GERG_AECF_1891_Anexo1A-QA.txt
    [id |-> <<50, 66>>,  \* 2B
     db |-> <<83, 65, 84, 95, 86, 50>>,  \* SAT_V2
     table |-> <<65, 78, 69, 88, 79, 95, 50, 66>>,  \* ANEXO_2B
     file |-> <<71, 69, 82, 71, 95, 65, 69, 67, 70, 95, 49, 56, 57, 49, 95, 65, 110, 101, 120, 111, 50, 66, 46, 99, 115, 118>>],  \* GERG_AECF_1891_Anexo2B.csv
    [id |-> <<51, 67>>,  \* 3C
     db |-> <<83, 65, 84, 95, 78, 243, 109, 105, 110, 97, 95, 86, 50>>,  \* SAT_N\xf3mina_V2
     table |-> <<65, 78, 69, 88, 79, 95, 51, 67>>,  \* ANEXO_3C
     file |-> <<71, 69, 82, 71, 95, 65, 69, 67, 70, 95, 49, 56, 57, 49, 95, 65, 110, 101, 120, 111, 51, 67, 46, 99, 115, 118>>],  \* GERG_AECF_1891_Anexo3C.csv
    [id |-> <<52, 68>>,  \* 4D
     db |-> <<83, 65, 84, 95, 78, 243, 109, 105, 110, 97, 95, 86, 50>>,  \* SAT_N\xf3mina_V2
     table |-> <<65, 78, 69, 88, 79, 95, 52, 68>>,  \* ANEXO_4D
     file |-> <<71, 69, 82, 71, 95, 65, 69, 67, 70, 95, 49, 56, 57, 49, 95, 65, 110, 101, 120, 111, 52, 68, 46, 99, 115, 118>>],  \* GERG_AECF_1891_Anexo4D.csv
    [id |-> <<53, 69>>,  \* 5E
     db |-> <<83, 65, 84, 95, 78, 243, 109, 105, 110, 97, 95, 86, 50>>,  \* SAT_N\xf3mina_V2
     table |-> <<65, 78, 69, 88, 79, 95, 53, 69>>,  \* ANEXO_5E
     file |-> <<71, 69, 82, 71, 95, 65, 69, 67, 70, 95, 49, 56, 57, 49, 95, 65, 110, 101, 120, 111, 53, 69, 46, 99, 115, 118>>],  \* GERG_AECF_1891_Anexo5E.csv
    [id |-> <<54, 70>>,  \* 6F
     db |-> <<83, 65, 84, 95, 78, 243, 109, 105, 110, 97, 95, 86, 50>>,  \* SAT_N\xf3mina_V2
     table |-> <<65, 78, 69, 88, 79, 95, 54, 70>>,  \* ANEXO_6F
     file |-> <<71, 69, 82, 71, 95, 65, 69, 67, 70, 95, 49, 56, 57, 49, 95, 65, 110, 101, 120, 111, 54, 70, 46, 99, 115, 118>>],  \* GERG_AECF_1891_Anexo6F.csv
    [id |-> <<55, 71>>,  \* 7G
     db |-> <<83, 65, 84, 95, 78, 243, 109, 105, 110, 97, 95, 86, 50>>,  \* SAT_N\xf3mina_V2
     table |-> <<65, 78, 69, 88, 79, 95, 55, 71>>,  \* ANEXO_7G
     file |-> <<71, 69, 82, 71, 95, 65, 69, 67, 70, 95, 49, 56, 57, 49, 95, 65, 110, 101, 120, 111, 55, 71, 46, 99, 115, 118>>]  \* GERG_AECF_1891_Anexo7G.csv
>>

SUFIJO == <<95, 50, 48, 50, 53, 95, 49, 83>>  \* _2025_1S

\* a lookup that falls back to the first annex of the catalog
MetaPorDefecto(id_anexo) ==
    LET hits == { k \in 1..Len(CONFIG_TABLAS) : CONFIG_TABLAS[k].id = id_anexo }
        m    == CONFIG_TABLAS[IF hits = {} THEN 1 ELSE CHOOSE k \in hits : TRUE]
    IN  [kind |-> "ok",
         meta |-> [database |-> m.db, table_name |-> m.table \o SUFIJO, file_name |-> m.file]]

\* obtener_meta(id_anexo): the dict of the annex, or ValueError
obtener_meta(id_anexo) ==
    LET hits == { k \in 1..Len(CONFIG_TABLAS) : CONFIG_TABLAS[k].id = id_anexo }
    IN  IF hits = {} THEN [kind |-> "ValueError", meta |-> SinMeta]
        ELSE LET m == CONFIG_TABLAS[CHOOSE k \in hits : TRUE]
             IN  [kind |-> "ok",
                  meta |-> [database |-> m.db,
                            table_name |-> m.table \o SUFIJO,
                            file_name |-> m.file]]

(***************************************************************************)
(* pkg/reports.py: ETLReport.audit_batch, as a call                        *)
(***************************************************************************)
\* the parameters of audit_batch after self; none has a default
audit_batch_params == <<"df", "col_audit">>

\* report.audit_batch(*args): binding the positional arguments to the
\* parameters raises TypeError when one is missing or one is left over;
\* otherwise the body runs, which updates the report's counters and returns
\* None
audit_batch(args) ==
    IF Len(args) # Len(audit_batch_params) THEN "TypeError" ELSE "None"

(***************************************************************************)
(* main.py: main, one invocation from its first line                       *)
(***************************************************************************)
Arg_1A == <<49, 65>>  \* '1A'
Arg_2B == <<50, 66>>  \* '2B'
Arg_3c == <<51, 99>>  \* '3c'
Arg_7g == <<55, 103>>  \* '7g'
Arg_9Z == <<57, 90>>  \* '9Z'
Arg_1A_blank == <<49, 65, 32>>  \* '1A '
Arg_vacio == <<>>  \* ''

Argumentos == {None, Arg_1A, Arg_2B, Arg_3c, Arg_7g, Arg_9Z, Arg_1A_blank, Arg_vacio}

\* id_anexo = sys.argv[1].upper() if len(sys.argv) > 1 else "1A"
id_anexo == IF argv1 = None THEN Arg_1A ELSE Upper(argv1)

\* the text of a UUID of archivo
UuidTexto(u) == <<117, 48 + u>>

\* the batch read_csv makes of the lines: the UUID of each line and its date
LoteDe(lines, fechas) ==
    [columns |-> <<Col_UUID, Col_FechaEmision>>,
     rows    |-> [r \in 1..Len(lines) |-> <<UuidTexto(lines[r]), fechas[r]>>]]

\* meta = obtener_meta(id_anexo); `except ValueError` prints and returns
Resolver ==
    /\ mpc = "inicio"
    /\ LET r == obtener_meta(id_anexo)
       IN  IF r.kind = "ValueError"
           THEN mpc' = "config_error" /\ UNCHANGED meta
           ELSE mpc' = "resuelto" /\ meta' = r.meta
    /\ UNCHANGED <<argv1, archivo_existe, eventos, fallo_en, corrida, metricas, historial>>
    /\ UNCHANGED <<dbVars, uploadVars, readerVars, repairVars, orqVars, batchVars>>

\* if not ruta_archivo.exists(): return
VerificarRecurso ==
    /\ mpc = "resuelto"
    /\ eventos' = Append(eventos, "exists")
    /\ mpc' = IF archivo_existe THEN "listo" ELSE "sin_archivo"
    /\ UNCHANGED <<argv1, archivo_existe, meta, fallo_en, corrida, metricas, historial>>
    /\ UNCHANGED <<dbVars, uploadVars, readerVars, repairVars, orqVars, batchVars>>

\* os.path.getsize, report = ETLReport(), reader = get_sat_reader(...), which
\* opens the file and reads its header line
AbrirLector ==
    /\ mpc = "listo"
    /\ eventos' = eventos \o <<"getsize", "ETLReport", "open">>
    /\ f_pos' = 0
    /\ f_closed' = FALSE
    /\ closeCalls' = 0
    /\ returns' = <<>>
    /\ mpc' = "loop"
    /\ UNCHANGED <<archivo, batch_size>>
    /\ UNCHANGED <<argv1, archivo_existe, meta, fallo_en, corrida, metricas, historial>>
    /\ UNCHANGED <<dbVars, uploadVars, repairVars, orqVars, batchVars>>

\* chunks = reader.next_batches(1); the EOF test; df_batch = chunks[0]
Extraer ==
    /\ mpc = "loop"
    /\ NextBatchesEffect
    /\ returns' = Append(returns, NextBatchesResult)
    /\ IF NextBatchesResult.kind = "batch"
       THEN /\ \E fechas \in [1..Len(NextBatchesResult.lines) -> {V_fecha, V_NA}] :
                   df_batch' = LoteDe(NextBatchesResult.lines, fechas)
            /\ df_processed' = DfVacio
            /\ reparadas' = {}
            /\ esquema_final' = <<>>
            /\ df_final' = SinResultado
            /\ bpc' = "raw"
            /\ mpc' = "lote"
       ELSE /\ mpc' = "eof"
            /\ UNCHANGED <<df_batch, df_processed, reparadas, esquema_final, df_final, bpc>>
    /\ UNCHANGED <<archivo, batch_size, column_defs>>
    /\ UNCHANGED <<progVars, corrida, metricas, historial>>
    /\ UNCHANGED <<dbVars, uploadVars, repairVars, orqVars>>

\* aplicar_tipos_seguros raised: `except Exception` ends the run
FalloTipado ==
    /\ mpc = "lote" /\ bpc = "failed"
    /\ mpc' = "failed"
    /\ fallo_en' = "aplicar_tipos_seguros"
    /\ UNCHANGED <<argv1, archivo_existe, meta, eventos, corrida, metricas, historial>>
    /\ UNCHANGED <<dbVars, uploadVars, readerVars, repairVars, orqVars, batchVars>>

\* report.audit_batch(df_final): one positional argument.  When the call
\* raises, `except Exception` ends the run; when it returns, the loop goes on
\* to upload_to_sql_blindado.
Auditar ==
    /\ mpc = "lote" /\ bpc = "typed"
    /\ eventos' = Append(eventos, "audit_batch")
    /\ IF audit_batch(<<"df_final">>) = "TypeError"
       THEN mpc' = "failed" /\ fallo_en' = "audit_batch"
       ELSE mpc' = "upload" /\ UNCHANGED fallo_en
    /\ UNCHANGED <<argv1, archivo_existe, meta, corrida, metricas, historial>>
    /\ UNCHANGED <<dbVars, uploadVars, readerVars, repairVars, orqVars, batchVars>>

\* KeyboardInterrupt inside the try block
Interrumpir ==
    /\ mpc \in {"loop", "lote"}
    /\ mpc' = "interrupted"
    /\ UNCHANGED <<progVars, corrida, metricas, historial>>
    /\ UNCHANGED <<dbVars, uploadVars, readerVars, repairVars, orqVars, batchVars>>

(***************************************************************************)
(* Specification SpecMain: one invocation of main with any argument, the   *)
(* source file present or not                                              *)
(***************************************************************************)
MainInit ==
    /\ argv1 \in Argumentos
    /\ archivo_existe \in BOOLEAN
    /\ meta = SinMeta
    /\ eventos = <<>>
    /\ fallo_en = "none"
    /\ archivo \in Archivos
    /\ batch_size \in 1..MaxBatch
    /\ f_pos = 0
    /\ f_closed = TRUE
    /\ closeCalls = 0
    /\ returns = <<>>
    /\ tabla_existe = FALSE
    /\ tabla = <<>>
    /\ tx_creada = FALSE
    /\ tx_filas = <<>>
    /\ upc = "idle"
    /\ df = <<>>
    /\ conn = "none"
    /\ ins_i = 0
    /\ pendiente = "none"
    /\ upload_ret = "none"
    /\ llamada = LlamadaNueva(<<>>)
    /\ lotes_confirmados = <<>>
    /\ mpc = "inicio"
    /\ corrida = 1
    /\ metricas = 0
    /\ historial = <<>>
    /\ RepairOff
    /\ BatchOff
    /\ OrqOff

MainNext ==
    \/ Resolver
    \/ VerificarRecurso
    \/ AbrirLector
    \/ Extraer
    \/ Transformar
    \/ Tipar
    \/ FalloTipado
    \/ Auditar
    \/ Interrumpir

SpecMain == MainInit /\ [][MainNext]_vars

Conocidos == { CONFIG_TABLAS[k].id : k \in 1..Len(CONFIG_TABLAS) }

\* C14: once obtener_meta has been called, an unknown annex code has ended
\* the run with nothing touched: no file call, no reader, no connection; and a
\* known code has its database, its table name with the suffix, and its file
\* name (3C: SAT_Nómina_V2, ANEXO_3C_2025_1S, GERG_AECF_1891_Anexo3C.csv).
C14_UnknownAnnexNoIO ==
    mpc # "inicio" =>
        /\ id_anexo \notin Conocidos =>
               /\ mpc = "config_error"
               /\ meta = SinMeta
               /\ eventos = <<>>
               /\ f_closed /\ returns = <<>>
               /\ conn = "none" /\ llamada = LlamadaNueva(<<>>)
        /\ id_anexo \in Conocidos =>
               \E k \in 1..Len(CONFIG_TABLAS) :
                   /\ CONFIG_TABLAS[k].id = id_anexo
                   /\ meta.database = CONFIG_TABLAS[k].db
                   /\ meta.table_name = CONFIG_TABLAS[k].table \o SUFIJO
                   /\ meta.file_name = CONFIG_TABLAS[k].file
        /\ argv1 = Arg_3c =>
               /\ meta.database = <<83, 65, 84, 95, 78, 243, 109, 105, 110, 97, 95, 86, 50>>
               /\ meta.table_name = <<65, 78, 69, 88, 79, 95, 51, 67, 95, 50, 48, 50, 53, 95, 49, 83>>
               /\ meta.file_name = <<71, 69, 82, 71, 95, 65, 69, 67, 70, 95, 49, 56, 57, 49, 95, 65, 110, 101, 120, 111, 51, 67, 46, 99, 115, 118>>

\* C14 witness: main was started with the unknown code 9Z over a file that
\* is on disk and has lines, and has returned from the configuration error.
C14_Witness ==
    /\ argv1 = Arg_9Z
    /\ archivo_existe /\ Len(archivo) > 0
    /\ mpc = "config_error"

Cuenta(e) == Cardinality({ i \in 1..Len(eventos) : eventos[i] = e })

LotesLeidos == Cardinality({ i \in 1..Len(returns) : returns[i].kind = "batch" })

\* C15: every batch the reader returned and coercion typed goes through
\* audit_batch once and on to upload: the audit call never ends the run, at
\* the top of the loop every batch read has been audited once and handed to
\* upload, and update_metrics has been called once per batch upload reported
\* inserted.
C15_AuditOnceThenUpload ==
    /\ fallo_en # "audit_batch"
    /\ mpc \in {"loop", "eof"} =>
           /\ Cuenta("audit_batch") = LotesLeidos
           /\ Cuenta("upload") = LotesLeidos
    /\ Cuenta("update_metrics") = Len(lotes_confirmados)

(***************************************************************************)
(* ejecutar_todo.py: procesar_todo_el_periodo                              *)
(***************************************************************************)

\* ANEXOS = list(CONFIG_TABLAS.keys())
ANEXOS == [k \in 1..Len(CONFIG_TABLAS) |-> CONFIG_TABLAS[k].id]

\* how a main.py process started on an annex can end: at the sentinel
\* ("eof"), in `except Exception` ("failed"), in `except KeyboardInterrupt`
\* ("interrupted"), or with an exception that leaves main ("uncaught":
\* raised outside the try block)
FinesDeMain == {"eof", "failed", "interrupted", "uncaught"}

\* the exit code of `python main.py <anexo>`: both handlers print and fall
\* off the end of main, so the interpreter exits with 0; an exception that
\* leaves main ends it with 1
returncode(fin) == IF fin = "uncaught" THEN 1 ELSE 0

\* the first half of a turn: obtener_meta(anexo), ruta_archivo.exists()
OrqValidar ==
    /\ opc = "validar"
    /\ IF obtener_meta(ANEXOS[i_anexo]).kind = "ValueError"
       THEN /\ resumen' = Append(resumen, <<ANEXOS[i_anexo], "ERROR TECNICO">>)
            /\ fines' = Append(fines, "no_run")
            /\ opc' = "limpiar"
       ELSE \E existe \in BOOLEAN :
               IF ~existe
               THEN /\ resumen' = Append(resumen, <<ANEXOS[i_anexo], "SALTADO">>)
                    /\ fines' = Append(fines, "no_run")
                    /\ opc' = "limpiar"
               ELSE /\ opc' = "main"
                    /\ UNCHANGED <<resumen, fines>>
    /\ UNCHANGED <<i_anexo, limpiezas>>
    /\ UNCHANGED <<repairVars, readerVars, loadVars, batchVars, progVars>>

\* subprocess.run([sys.executable, "main.py", anexo], check=True): a non-zero
\* code raises CalledProcessError
OrqEjecutar ==
    /\ opc = "main"
    /\ \E fin \in FinesDeMain :
        /\ fines' = Append(fines, fin)
        /\ resumen' = Append(resumen,
               <<ANEXOS[i_anexo], IF returncode(fin) = 0 THEN "EXITO" ELSE "FALLO">>)
    /\ opc' = "limpiar"
    /\ UNCHANGED <<i_anexo, limpiezas>>
    /\ UNCHANGED <<repairVars, readerVars, loadVars, batchVars, progVars>>

\* finally: limpiar_directorio_trabajo(TEMP_DIR); then the next annex
OrqLimpiar ==
    /\ opc = "limpiar"
    /\ limpiezas' = Append(limpiezas, i_anexo)
    /\ IF i_anexo < Len(ANEXOS)
       THEN i_anexo' = i_anexo + 1 /\ opc' = "validar"
       ELSE i_anexo' = i_anexo /\ opc' = "reporte"
    /\ UNCHANGED <<resumen, fines>>
    /\ UNCHANGED <<repairVars, readerVars, loadVars, batchVars, progVars>>

(***************************************************************************)
(* Specification SpecOrq: one call of procesar_todo_el_periodo             *)
(***************************************************************************)
OrqInit ==
    /\ opc = "validar"
    /\ i_anexo = 1
    /\ resumen = <<>>
    /\ limpiezas = <<>>
    /\ fines = <<>>
    /\ RepairOff
    /\ ReaderOff
    /\ LoadOff
    /\ BatchOff
    /\ ProgOff

OrqNext == OrqValidar \/ OrqEjecutar \/ OrqLimpiar

SpecOrq == OrqInit /\ [][OrqNext]_vars

\* the turns of the loop that have appended their summary entry
TurnosAnotados == IF opc \in {"validar", "main"} THEN i_anexo - 1 ELSE i_anexo

\* the turns of the loop whose cleanup has run
TurnosLimpios == IF opc = "reporte" THEN i_anexo ELSE i_anexo - 1

\* every annex of the catalog gets one summary entry, in catalog order, the
\* cleanup runs once after each annex, and the loop goes through the whole
\* catalog whatever the annexes' outcomes
ResumenCompleto ==
    /\ Len(resumen) = TurnosAnotados
    /\ Len(fines) = TurnosAnotados
    /\ \A k \in 1..Len(resumen) : resumen[k][1] = ANEXOS[k]
    /\ limpiezas = [k \in 1..TurnosLimpios |-> k]
    /\ opc = "reporte" => Len(resumen) = Len(ANEXOS)

\* C22: an annex whose main process hit a fatal error is in the summary as
\* failed and the orchestrator goes on: one entry per annex in catalog order,
\* one cleanup after each annex.
C22_FailedAnnexRecorded ==
    /\ ResumenCompleto
    /\ \A k \in 1..Len(fines) :
           fines[k] \in {"failed", "uncaught"} => resumen[k][2] = "FALLO"

(***************************************************************************)
(* Specification SpecRepair: limpiar_texto_python applied to one argument  *)
(***************************************************************************)

\* longest text enumerated over RepairAlphabet
MaxTextLen == 3

\* characters of the catalog whose rules feed one another:
\* ' ', 'A', 'O', U+00A5, U+00B1, U+00C2, U+00C3, U+201C
RepairAlphabet == {32, 65, 79, 165, 177, 194, 195, 8220}

BoundedTexts == UNION { [1..n -> RepairAlphabet] : n \in 0..MaxTextLen }

FixtureTexts == { REEMPLAZOS_MOJIBAKE[k][1] : k \in 1..NumReglas }
                    \cup { REEMPLAZOS_MOJIBAKE[k][2] : k \in 1..NumReglas }

RepairInputs == {None} \cup BoundedTexts \cup FixtureTexts

RepairInit ==
    /\ texto \in RepairInputs
    /\ resultado = None
    /\ rpc = "ready"
    /\ ReaderOff
    /\ LoadOff
    /\ BatchOff
    /\ ProgOff
    /\ OrqOff

Limpiar ==
    /\ rpc = "ready"
    /\ resultado' = limpiar_texto_python(texto)
    /\ rpc' = "done"
    /\ UNCHANGED <<texto, readerVars, loadVars, batchVars, progVars, orqVars>>

\* limpiar_texto_python applied to what it returned
Relimpiar ==
    /\ rpc = "done"
    /\ texto' = resultado
    /\ resultado' = limpiar_texto_python(resultado)
    /\ rpc' = "again"
    /\ UNCHANGED <<readerVars, loadVars, batchVars, progVars, orqVars>>

RepairNext == Limpiar \/ Relimpiar

SpecRepair == RepairInit /\ [][RepairNext]_vars

RECURSIVE PlegarRango(_, _, _)
\* the sequential fold of rules lo..hi without the `sucio in texto_limpio` test
PlegarRango(t, lo, hi) ==
    IF lo > hi THEN t
    ELSE IF lo = hi
         THEN StrReplace(t, REEMPLAZOS_MOJIBAKE[lo][1], REEMPLAZOS_MOJIBAKE[lo][2])
    ELSE LET mid == (lo + hi) \div 2
             izq == PlegarRango(t, lo, mid)
         IN  IF Len(izq) >= 0 THEN PlegarRango(izq, mid + 1, hi) ELSE izq

\* C7: repair(None) = None, and for a text the guarded loop returns exactly the
\* unguarded sequential fold of the catalog in its fixed order.
C7_GuardedFoldIsFold ==
    rpc = "done" =>
        /\ (texto = None => resultado = None)
        /\ (texto # None => resultado = PlegarRango(texto, 1, NumReglas))

\* C7 witness: a text in which one rule's pattern occurs twice has been
\* through limpiar_texto_python and both occurrences were replaced
\* (U+00A5 'A' U+00A5 became U+00D1 'A' U+00D1).
C7_Witness ==
    /\ rpc = "done"
    /\ texto = <<165, 65, 165>>
    /\ resultado = <<209, 65, 209>>

\* C8: every catalog entry is a fixture: repair(corrupt) = correct and
\* repair(correct) = correct under the full ordered fold.
C8_FixturesRepair ==
    rpc = "done" =>
        \A k \in 1..NumReglas :
            /\ (texto = REEMPLAZOS_MOJIBAKE[k][1] => resultado = REEMPLAZOS_MOJIBAKE[k][2])
            /\ (texto = REEMPLAZOS_MOJIBAKE[k][2] => resultado = REEMPLAZOS_MOJIBAKE[k][2])

\* C21: repair applied to its own output changes nothing:
\* repair(repair(s)) = repair(s) for every text s over the catalog's characters.
C21_RepairIdempotent ==
    rpc = "again" => resultado = texto

====
